---------------------------- MODULE Spec2Model ----------------------------
(***************************************************************************)
(* A model of the mozjpeg-oxide encoder core: the baseline Huffman entropy *)
(* encoder (entropy.rs), quantization table construction and coefficient   *)
(* quantization (quant.rs), the integer forward DCT (dct.rs) and the       *)
(* progressive scan planner (scan_optimize, checked against the reference  *)
(* list of tests/scan_verification.rs).                                    *)
(*                                                                         *)
(* The stateful parts are the EntropyEncoder and the ScanTrialEncoder of   *)
(* scan_trial.rs.  The pure functions are driven through a pending call    *)
(* (`call`) and its result (`ret`).                                        *)
(***************************************************************************)
EXTENDS Integers, Sequences, FiniteSets, TLC

VARIABLES
    last_dc_val,  \* EntropyEncoder.last_dc_val: [i16; 4]
    emitted,      \* what the most recent encode_block call handed to the BitWriter
    hist,         \* the calls made on the encoder so far (history)
    dc_table,     \* the DerivedTable passed as dc_table: its symbols that have a code
    ac_table,     \* the DerivedTable passed as ac_table
    call,         \* pending call of a pure function: its name and arguments
    ret,          \* its result, or NoRet before the call is made
    trial,        \* ScanTrialEncoder: the fields set by new() and never changed
    y_state,      \* ScanTrialEncoder.y_state: Vec<BlockState>
    cb_state,     \* ScanTrialEncoder.cb_state
    cr_state,     \* ScanTrialEncoder.cr_state
    scan_buffers, \* ScanTrialEncoder.scan_buffers: Vec<Vec<u8>>
    sizes,        \* the local `sizes` of a running encode_all_scans
    ffi_calls     \* the calls a CMozjpeg encode has made on the C library

\* the fields of the ScanTrialEncoder and the position of its running call
trial_vars == <<trial, y_state, cb_state, cr_state, scan_buffers, sizes>>

vars == <<last_dc_val, emitted, hist, dc_table, ac_table, call, ret, trial_vars, ffi_calls>>

----------------------------------------------------------------------------
(* Fixed-width integer arithmetic *)

\* 2^n for n in 0..30
Pow2(n) ==
    <<1, 2, 4, 8, 16, 32, 64, 128, 256, 512, 1024, 2048, 4096, 8192, 16384, 32768,
      65536, 131072, 262144, 524288, 1048576, 2097152, 4194304, 8388608, 16777216,
      33554432, 67108864, 134217728, 268435456, 536870912, 1073741824>>[n + 1]

Abs(x) == IF x < 0 THEN -x ELSE x

Min(a, b) == IF a < b THEN a ELSE b

Max(a, b) == IF a > b THEN a ELSE b

\* `x as u16`, `x as u8`: reduction modulo 2^16, 2^8
ToU16(x) == x % 65536

ToU8(x) == x % 256

\* `x as i16`: two's complement reinterpretation of the low 16 bits
ToI16(x) == ((x + 32768) % 65536) - 32768

I16 == -32768 .. 32767

\* Rust's integer `/`: the quotient truncated toward zero
TruncDiv(a, b) == IF a >= 0 THEN a \div b ELSE -((-a) \div b)

\* bitwise or of two non-negative integers
RECURSIVE BitOr(_, _)
BitOr(a, b) ==
    IF a = 0 THEN b
    ELSE IF b = 0 THEN a
    ELSE (IF (a % 2 = 1) \/ (b % 2 = 1) THEN 1 ELSE 0) + 2 * BitOr(a \div 2, b \div 2)

RECURSIVE SeqCat(_)
SeqCat(ss) == IF ss = <<>> THEN <<>> ELSE Head(ss) \o SeqCat(Tail(ss))

----------------------------------------------------------------------------
(* entropy.rs: constants *)

DCTSIZE2 == 64

NUM_DC_PRED == 4

MAX_COEF_BITS == 10

EOB == 0

ZRL == 240

\* consts::JPEG_NATURAL_ORDER: zigzag position -> natural (row-major) index
JPEG_NATURAL_ORDER ==
    << 0,  1,  8, 16,  9,  2,  3, 10,
      17, 24, 32, 25, 18, 11,  4,  5,
      12, 19, 26, 33, 40, 48, 41, 34,
      27, 20, 13,  6,  7, 14, 21, 28,
      35, 42, 49, 56, 57, 50, 43, 36,
      29, 22, 15, 23, 30, 37, 44, 51,
      58, 59, 52, 45, 38, 31, 39, 46,
      53, 60, 61, 54, 47, 55, 62, 63 >>

\* natural index of zigzag position k (0-based, as the Rust slice is)
NaturalOf(k) == JPEG_NATURAL_ORDER[k + 1]

----------------------------------------------------------------------------
(* entropy.rs: jpeg_nbits *)

\* u16::leading_zeros: 16 less the number of bit positions up to the highest set bit
leading_zeros(x) == 16 - Cardinality({bit \in 0 .. 15 : Pow2(bit) <= x})

\* i16::unsigned_abs: the magnitude as u16 (32768 for i16::MIN)
unsigned_abs(value) == IF value < 0 THEN -value ELSE value

\* a port that forgets the absolute value and bit-scans the raw u16 pattern
jpeg_nbits_no_abs(value) ==
    IF value = 0 THEN 0 ELSE ToU8(16 - leading_zeros(ToU16(value)))

jpeg_nbits(value) ==
    IF value = 0 THEN 0 ELSE ToU8(16 - leading_zeros(unsigned_abs(value)))

----------------------------------------------------------------------------
(* entropy.rs: the Huffman tables and the bit writer, at the level of the   *)
(* put_bits calls the encoder makes                                        *)

\* The tables the repository's encoder tests build (the JPEG Annex K luminance
\* tables): DC categories 0..11; AC symbols EOB, ZRL and run/size pairs with
\* size 1..10.  Only whether a symbol has a code (length > 0) is kept.
StdDcSymbols == 0 .. 11

StdAcSymbols == {EOB, ZRL} \cup {r * 16 + s : r \in 0 .. 15, s \in 1 .. MAX_COEF_BITS}

\* DerivedTable::get_code(symbol).1: the code length, 0 for a symbol without a code.
\* The lengths themselves are abstracted to 1 (some positive length).
get_code_size(table, symbol) == IF symbol \in table THEN 1 ELSE 0

\* one put_bits call: a Huffman code of a symbol, or n raw bits holding v
HuffCode(tbl, sym, size) == [k |-> "huff", tbl |-> tbl, sym |-> sym, n |-> size, v |-> 0]

RawBits(tbl, value, nbits) == [k |-> "bits", tbl |-> tbl, sym |-> 0, n |-> nbits, v |-> value]

\* `1u16 << nbits` with the shift amount taken modulo the width (release builds)
Shl1U16(nbits) == Pow2(nbits % 16)

\* lines 120-128 and 166-173: the category and the bits emitted for a value
\* (for a negative value the low nbits bits of value - 1)
magnitude_bits(x) ==
    IF x < 0
    THEN ToU16(ToU16(x) - 1) % Shl1U16(jpeg_nbits(x))
    ELSE ToU16(x)

----------------------------------------------------------------------------
(* entropy.rs: EntropyEncoder::encode_dc *)

\* line 115: dc.wrapping_sub(last_dc_val[component])
dc_diff(dc, last) == ToI16(dc - last)

\* lines 120-141: what encode_dc writes for a block with DC value dc
encode_dc_bits(dc, last, dctbl) ==
    LET diff  == dc_diff(dc, last)
        nbits == jpeg_nbits(diff)
        value == magnitude_bits(diff)
        size  == get_code_size(dctbl, nbits)
    IN  (IF size > 0 THEN <<HuffCode("dc", nbits, size)>> ELSE <<>>)
        \o (IF nbits > 0 THEN <<RawBits("dc", value, nbits)>> ELSE <<>>)

----------------------------------------------------------------------------
(* entropy.rs: EntropyEncoder::encode_ac *)

\* a coder with the two nibbles of the symbol swapped
ac_symbol_swapped(run, nbits) == ToU8(BitOr(run, ToU8(nbits * 16)))

\* line 176: (run << 4) | nbits, in u8
ac_symbol(run, nbits) == ToU8(BitOr(ToU8(run * 16), nbits))

\* a coder that ends every block with EOB
needs_eob_always(run) == run >= 0

\* line 190: trailing zeros remain
needs_eob(run) == run > 0

\* lines 159-163: one ZRL per 16 zeros of the run
RECURSIVE emit_zrl(_, _)
emit_zrl(run, actbl) ==
    IF run >= 16
    THEN <<HuffCode("ac", ZRL, get_code_size(actbl, ZRL))>> \o emit_zrl(run - 16, actbl)
    ELSE <<>>

\* lines 165-183: a non-zero coefficient met with `run` zeros pending
emit_coef(coef, run, actbl) ==
    LET nbits  == jpeg_nbits(coef)
        value  == magnitude_bits(coef)
        symbol == ac_symbol(run % 16, nbits)
    IN  emit_zrl(run, actbl)
        \o <<HuffCode("ac", symbol, get_code_size(actbl, symbol))>>
        \o (IF nbits > 0 THEN <<RawBits("ac", value, nbits)>> ELSE <<>>)

\* lines 152-193: the loop over zigzag positions k..63 with `run` zeros pending.
\* Every zero coefficient adds one to run (line 156), so the loop is advanced
\* from k straight to the next non-zero coefficient; when none is left the
\* remaining positions are all zeros and EOB is written if run > 0.
RECURSIVE ac_loop(_, _, _, _, _)
ac_loop(block, actbl, k, run, out) ==
    LET nz == {j \in k .. DCTSIZE2 - 1 : block[NaturalOf(j)] # 0}
    IN  IF nz = {}
        THEN out \o (IF needs_eob(run + (DCTSIZE2 - k))
                     THEN <<HuffCode("ac", EOB, get_code_size(actbl, EOB))>>
                     ELSE <<>>)
        ELSE LET j == CHOOSE i \in nz : \A i2 \in nz : i <= i2
             IN  ac_loop(block, actbl, j + 1, 0,
                         out \o emit_coef(block[NaturalOf(j)], run + (j - k), actbl))

\* lines 148-196
encode_ac(block, actbl) == ac_loop(block, actbl, 1, 0, <<>>)

----------------------------------------------------------------------------
(* entropy.rs: EntropyEncoder, its operations *)

Components == 0 .. NUM_DC_PRED - 1

\* an encoder whose encode_dc forgets to store the new predictor
encode_dc_keeps_predictor(last, dc, component, dctbl) ==
    [last_dc_val |-> last,
     out         |-> encode_dc_bits(dc, last[component], dctbl)]

\* lines 108-142: the predictor update and the bits written
encode_dc(last, dc, component, dctbl) ==
    [last_dc_val |-> [last EXCEPT ![component] = dc],
     out         |-> encode_dc_bits(dc, last[component], dctbl)]

\* lines 88-102: DC, then AC
encode_block(last, block, component, dctbl, actbl) ==
    LET d == encode_dc(last, block[0], component, dctbl)
    IN  [last_dc_val |-> d.last_dc_val,
         out         |-> d.out \o encode_ac(block, actbl)]

\* The blocks callers pass: a DC value and a few non-zero AC coefficients, given
\* as <<zigzag position, value>> pairs in increasing position; every other
\* coefficient is 0.  Values stay within the 8-bit JPEG range the encoder is
\* documented for (AC magnitudes of at most MAX_COEF_BITS bits, DC differences of
\* at most MAX_COEF_BITS + 1).
MaxCalls == 3

MaxNonZero == 2

DcValues == {-Pow2(MAX_COEF_BITS), 7, Pow2(MAX_COEF_BITS) - 1}

AcValues == {1 - Pow2(MAX_COEF_BITS), -2, 1, 5}

AcPositions == {1, 2, 17, 18, 50, DCTSIZE2 - 1}

RECURSIVE LayoutsFrom(_, _)
LayoutsFrom(minpos, n) ==
    IF n = 0 THEN {<<>>}
    ELSE {<<>>} \cup
         UNION {{<<<<p, v>>>> \o rest : rest \in LayoutsFrom(p + 1, n - 1)} :
                p \in {q \in AcPositions : q >= minpos}, v \in AcValues}

AcLayouts == LayoutsFrom(1, MaxNonZero)

\* the DC values and layouts used in longer call sequences
SeqDcValues == {-Pow2(MAX_COEF_BITS), Pow2(MAX_COEF_BITS) - 1}

SeqLayouts == {<<>>, <<<<1, 5>>, <<DCTSIZE2 - 1, -2>>>>}

ZeroBlock == [i \in 0 .. DCTSIZE2 - 1 |-> 0]

\* the block in natural order, [i16; 64]: the coefficient of zigzag position k
\* sits at index JPEG_NATURAL_ORDER[k]
RECURSIVE PlaceAc(_, _)
PlaceAc(block, layout) ==
    IF layout = <<>> THEN block
    ELSE PlaceAc([block EXCEPT ![NaturalOf(Head(layout)[1])] = Head(layout)[2]],
                 Tail(layout))

MakeBlock(dc, layout) == PlaceAc([ZeroBlock EXCEPT ![0] = dc], layout)

NoCall == [op |-> "none"]

NoRet == [done |-> FALSE]

\* no ScanTrialEncoder has been constructed and no CMozjpeg encode has run
NoTrialEncoder ==
    /\ trial = [built |-> FALSE]
    /\ y_state = <<>>
    /\ cb_state = <<>>
    /\ cr_state = <<>>
    /\ scan_buffers = <<>>
    /\ sizes = <<>>
    /\ ffi_calls = <<>>

Standalone(h) == \E i \in 1 .. Len(h) : h[i].op = "standalone"

\* lines 59-64: EntropyEncoder::new
InitEntropy ==
    /\ last_dc_val = [c \in Components |-> 0]
    /\ emitted = <<>>
    /\ hist = <<>>
    /\ dc_table = StdDcSymbols
    /\ ac_table = StdAcSymbols
    /\ call = NoCall
    /\ ret = NoRet
    /\ NoTrialEncoder

\* lines 88-102: encoder.encode_block(&block, component, dc_table, ac_table)
EncodeBlock ==
    /\ Len(hist) < MaxCalls
    /\ ~Standalone(hist)
    /\ \E dc \in SeqDcValues, layout \in SeqLayouts, component \in Components :
          LET r == encode_block(last_dc_val, MakeBlock(dc, layout), component,
                                dc_table, ac_table)
          IN  /\ last_dc_val' = r.last_dc_val
              /\ emitted' = r.out
              /\ hist' = Append(hist, [op |-> "encode", comp |-> component,
                                       dc |-> dc, ac |-> layout, pred |-> 0])
    /\ UNCHANGED <<dc_table, ac_table, call, ret, trial_vars, ffi_calls>>

\* lines 67-69: encoder.reset_dc()
ResetDc ==
    /\ Len(hist) < MaxCalls
    /\ ~Standalone(hist)
    /\ last_dc_val' = [c \in Components |-> 0]
    /\ emitted' = <<>>
    /\ hist' = Append(hist, [op |-> "reset", comp |-> 0, dc |-> 0, ac |-> <<>>, pred |-> 0])
    /\ UNCHANGED <<dc_table, ac_table, call, ret, trial_vars, ffi_calls>>

\* lines 205-216: encode_block_standalone(writer, &block, last_dc, dc_table, ac_table):
\* a new encoder, set_last_dc(0, last_dc), encode_block(block, 0, ..)
EncodeBlockStandalone ==
    /\ hist = <<>>
    /\ \E dc \in DcValues, layout \in AcLayouts, last_dc \in DcValues :
          LET fresh == [c \in Components |-> 0]
              set   == [fresh EXCEPT ![0] = last_dc]
              r     == encode_block(set, MakeBlock(dc, layout), 0, dc_table, ac_table)
          IN  /\ last_dc_val' = r.last_dc_val
              /\ emitted' = r.out
              /\ hist' = <<[op |-> "standalone", comp |-> 0, dc |-> dc,
                            ac |-> layout, pred |-> last_dc]>>
    /\ UNCHANGED <<dc_table, ac_table, call, ret, trial_vars, ffi_calls>>

NextEntropy == EncodeBlock \/ ResetDc \/ EncodeBlockStandalone

SpecEntropy == InitEntropy /\ [][NextEntropy]_vars

----------------------------------------------------------------------------
(* Properties of the entropy encoder (SpecEntropy) *)

Last(h) == h[Len(h)]

Front(h) == SubSeq(h, 1, Len(h) - 1)

\* the last call encoded a block
BlockEncoded == hist # <<>> /\ Last(hist).op \in {"encode", "standalone"}

\* The DC coefficient of the most recent block encoded for component c since the
\* last reset_dc or since construction, 0 if there is none.
RECURSIVE MostRecentDc(_, _)
MostRecentDc(h, c) ==
    IF h = <<>> THEN 0
    ELSE IF Last(h).op = "reset" THEN 0
    ELSE IF Last(h).comp = c THEN Last(h).dc
    ELSE MostRecentDc(Front(h), c)

\* the predictor a component had when the last call of h was made
PredictorBefore(h, c) ==
    IF Last(h).op = "standalone"
    THEN (IF c = 0 THEN Last(h).pred ELSE 0)
    ELSE MostRecentDc(Front(h), c)

\* the magnitude category of the JPEG standard: the n with 2^(n-1) <= |v| < 2^n
Category(v) ==
    IF v = 0 THEN 0 ELSE CHOOSE n \in 1 .. 16 : Pow2(n - 1) <= Abs(v) /\ Abs(v) < Pow2(n)

\* what a decoder reads back from n magnitude bits holding v (JPEG F.2.2.1, EXTEND)
Extend(v, n) == IF n = 0 THEN 0 ELSE IF v < Pow2(n - 1) THEN v - (Pow2(n) - 1) ELSE v

\* the difference a decoder reads from the DC part of a block's output
DecodedDcDiff(out) ==
    IF out = <<>> \/ out[1].k # "huff" \/ out[1].tbl # "dc" THEN 99999
    ELSE IF out[1].sym = 0 THEN 0
    ELSE IF Len(out) < 2 \/ out[2].k # "bits" \/ out[2].tbl # "dc" \/ out[2].n # out[1].sym
         THEN 99999
    ELSE Extend(out[2].v, out[2].n)

\* the AC part of a block's output: symbols as <<"S", symbol>>, magnitude bits
\* as <<"B", number of bits, decoded value>>
AcTokens(out) ==
    LET ac == SelectSeq(out, LAMBDA e : e.tbl = "ac")
    IN  [i \in 1 .. Len(ac) |->
            IF ac[i].k = "huff" THEN <<"S", ac[i].sym>>
            ELSE <<"B", ac[i].n, Extend(ac[i].v, ac[i].n)>>]

DcPart(out) == SelectSeq(out, LAMBDA e : e.tbl = "dc")

Repeat(x, n) == [i \in 1 .. n |-> x]

\* the run-length code of a block's non-zero AC coefficients, read off the
\* layout: z zeros before a coefficient give floor(z/16) ZRL, one symbol
\* (z mod 16) * 16 + category, and the magnitude bits
ExpectedAc(layout) ==
    SeqCat([i \in 1 .. Len(layout) |->
        LET prev == IF i = 1 THEN 0 ELSE layout[i - 1][1]
            z    == layout[i][1] - prev - 1
            v    == layout[i][2]
        IN  Repeat(<<"S", 240>>, z \div 16)
            \o << <<"S", (z % 16) * 16 + Category(v)>>, <<"B", Category(v), v>> >>])

EobCount(out) ==
    Len(SelectSeq(out, LAMBDA e : e.tbl = "ac" /\ e.k = "huff" /\ e.sym = 0))

ZrlCount(out) ==
    Len(SelectSeq(out, LAMBDA e : e.tbl = "ac" /\ e.k = "huff" /\ e.sym = 240))

\* the coefficient at zigzag position 63 of the last block
LastCoefZero == \A i \in 1 .. Len(Last(hist).ac) : Last(hist).ac[i][1] # 63

\* C1: after any sequence of encode_block and reset_dc calls every predictor
\* last_dc(c) is the DC coefficient of the most recent block encoded for c since
\* the last reset (0 if none); the difference coded for a block is its DC minus
\* the predictor its component had; the predictors of the other components are
\* the ones they had before the block.
C1_DcPrediction ==
    /\ \A c \in Components : last_dc_val[c] = MostRecentDc(hist, c)
    /\ BlockEncoded =>
          /\ DecodedDcDiff(emitted)
                = Last(hist).dc - PredictorBefore(hist, Last(hist).comp)
          /\ \A c \in Components \ {Last(hist).comp} :
                last_dc_val[c] = PredictorBefore(hist, c)

C1_Witness ==
    /\ Len(hist) = 3
    /\ hist[1].op = "encode" /\ hist[1].comp = 1 /\ hist[1].dc = 1023
    /\ hist[2].op = "encode" /\ hist[2].comp = 0 /\ hist[2].dc = 1023
    /\ hist[3].op = "encode" /\ hist[3].comp = 0 /\ hist[3].dc = -1024
    /\ last_dc_val = (0 :> -1024) @@ (1 :> 1023) @@ (2 :> 0) @@ (3 :> 0)
    /\ DecodedDcDiff(emitted) = -2047

\* C2: the AC part of every encoded block is, for each non-zero coefficient in
\* zigzag order preceded by z zeros, floor(z/16) ZRL symbols, the symbol
\* ((z mod 16) << 4) | nbits and nbits magnitude bits, and nothing else but
\* possibly one final EOB.
C2_AcRunLength ==
    BlockEncoded =>
        LET a    == AcTokens(emitted)
            body == IF a # <<>> /\ Last(a) = <<"S", 0>> THEN Front(a) ELSE a
        IN  body = ExpectedAc(Last(hist).ac)

C2_Witness ==
    /\ BlockEncoded
    /\ Last(hist).ac = << <<18, 5>>, <<63, -2>> >>
    /\ AcTokens(emitted) = << <<"S", 240>>, <<"S", 19>>, <<"B", 3, 5>>,
                              <<"S", 240>>, <<"S", 240>>, <<"S", 194>>, <<"B", 2, -2>> >>

\* C3: a block's output holds EOB exactly once, as its last symbol, if and only
\* if the coefficient at zigzag position 63 is zero, and no EOB otherwise; a
\* block whose AC coefficients are all zero gives the DC code followed by EOB
\* only, without ZRL.
C3_EndOfBlock ==
    BlockEncoded =>
        /\ LastCoefZero <=>
              /\ EobCount(emitted) = 1
              /\ Last(emitted) = HuffCode("ac", EOB, 1)
        /\ ~LastCoefZero => EobCount(emitted) = 0
        /\ Last(hist).ac = <<>> =>
              /\ emitted = DcPart(emitted) \o <<HuffCode("ac", EOB, 1)>>
              /\ ZrlCount(emitted) = 0

C3_Witness ==
    /\ BlockEncoded
    /\ Last(hist).ac = <<>>
    /\ Last(hist).dc = 1023
    /\ PredictorBefore(hist, Last(hist).comp) = 0
    /\ emitted = <<HuffCode("dc", 10, 1), RawBits("dc", 1023, 10), HuffCode("ac", EOB, 1)>>

----------------------------------------------------------------------------
(* entropy.rs: jpeg_nbits as a function of every i16 *)

\* a fresh encoder that no call touches
IdleEncoder ==
    /\ last_dc_val = [c \in Components |-> 0]
    /\ emitted = <<>>
    /\ hist = <<>>
    /\ dc_table = StdDcSymbols
    /\ ac_table = StdAcSymbols
    /\ NoTrialEncoder

InitNbits ==
    /\ IdleEncoder
    /\ call \in {[op |-> "jpeg_nbits", value |-> v] : v \in I16}
    /\ ret = NoRet

\* lines 35-41: jpeg_nbits(value)
JpegNbits ==
    /\ call.op = "jpeg_nbits"
    /\ ~ret.done
    /\ ret' = [done |-> TRUE, val |-> jpeg_nbits(call.value)]
    /\ UNCHANGED <<last_dc_val, emitted, hist, dc_table, ac_table, call, trial_vars, ffi_calls>>

NextNbits == JpegNbits

SpecNbits == InitNbits /\ [][NextNbits]_vars

\* C9: jpeg_nbits(v) is 0 for v = 0 and otherwise the n with
\* 2^(n-1) <= |v| < 2^n, for every i16 v, and is the same for v and -v.
C9_NbitsCategory ==
    (call.op = "jpeg_nbits" /\ ret.done) =>
        LET v == call.value
            n == ret.val
        IN  /\ (v = 0) <=> (n = 0)
            /\ v # 0 => /\ n \in 1 .. 16
                        /\ Pow2(n - 1) <= Abs(v)
                        /\ Abs(v) < Pow2(n)
            /\ -v \in I16 => jpeg_nbits(-v) = n

C9_Witness ==
    /\ call.op = "jpeg_nbits"
    /\ ret.done
    /\ call.value = -1024
    /\ ret.val = 11

----------------------------------------------------------------------------
(* quant.rs *)

\* An f32 is kept as the exact rational m / 2^s it denotes.
F32(m, s) == [m |-> m, s |-> s]

\* the integer nearest to n / d, ties to the even one (n >= 0, d > 0)
RoundHalfEven(n, d) ==
    LET q == n \div d
        r == n % d
    IN  IF 2 * r < d THEN q
        ELSE IF 2 * r > d THEN q + 1
        ELSE IF q % 2 = 0 THEN q ELSE q + 1

\* f32 division num / den of two small positive integers (both exact in f32,
\* num >= den): the quotient rounded to a 24-bit significand, ties to even
f32_div(num, den) ==
    LET e == CHOOSE x \in 0 .. 30 : Pow2(x) * den <= num /\ num < Pow2(x + 1) * den
        s == 23 - e
    IN  F32(RoundHalfEven(num * Pow2(s), den), s)

\* an `as u32` that rounds to nearest where the cast truncates
f32_as_u32_rounding(x) == IF x.m < 0 THEN 0 ELSE RoundHalfEven(x.m, Pow2(x.s))

\* `scale as u32`: truncation toward zero, negative values saturate to 0
f32_as_u32(x) == IF x.m < 0 THEN 0 ELSE x.m \div Pow2(x.s)

\* lines 31-41
quality_to_scale_factor(quality) ==
    LET q == Min(Max(quality, 1), 100)
        scale == IF q < 50 THEN f32_div(5000, q) ELSE F32(200 - q * 2, 0)
    IN  f32_as_u32(scale)

\* types::QuantTable::scaled(base, scale, force_baseline)
QuantTable_scaled(base, scale, force_baseline) ==
    [i \in DOMAIN base |->
        Min(Max((base[i] * scale + 50) \div 100, 1),
            IF force_baseline THEN 255 ELSE 32767)]

\* a port that never asks for the baseline limit
create_quant_table_never_baseline(base, quality, force_baseline) ==
    QuantTable_scaled(base, quality_to_scale_factor(quality), FALSE)

\* lines 89-96
create_quant_table(base, quality, force_baseline) ==
    QuantTable_scaled(base, quality_to_scale_factor(quality), force_baseline)

\* lines 107-123, the two base tables of the chosen variant being luma_base
\* and chroma_base
create_quant_tables(quality, luma_base, chroma_base, force_baseline) ==
    <<create_quant_table(luma_base, quality, force_baseline),
      create_quant_table(chroma_base, quality, force_baseline)>>

\* a quantizer that divides without the rounding term
quantize_coef_truncating(coef, quant) == ToI16(TruncDiv(coef, quant))

\* lines 134-142
quantize_coef(coef, quant) ==
    IF coef >= 0
    THEN ToI16(TruncDiv(coef + TruncDiv(quant, 2), quant))
    ELSE ToI16(TruncDiv(coef - TruncDiv(quant, 2), quant))

\* lines 153-155
dequantize_coef(qcoef, quant) == qcoef * quant

\* The base tables callers pass: flat tables (as the [300; 64] of the
\* force_baseline test) over the range of u16 entries, and a table whose
\* entries grow with the index.
BaseEntries == {1, 16, 99, 300, 65535}

FlatTable(b) == [i \in 0 .. DCTSIZE2 - 1 |-> b]

RampTable == [i \in 0 .. DCTSIZE2 - 1 |-> 4 * i + 3]

BaseTables == {FlatTable(b) : b \in BaseEntries} \cup {RampTable}

U8 == 0 .. 255

QualitySamples == {0, 1, 25, 49, 50, 75, 100, 255}

\* The coefficients and divisors of quantize_coef calls: coefficients are i16
\* values (the DCT output), -4096 .. 4095 once the factor 8 of the DCT is
\* removed; divisors are the u16 >= 1.
MaxCoef == 64

MaxQuant == 16

Coefs == (-MaxCoef .. MaxCoef) \cup {-32767, -4096, -4095, 4095, 32767}

Quants == (1 .. MaxQuant) \cup {255, 32767, 65535}

\* `x >> n` on i32: arithmetic shift, the floor of x / 2^n
Shr(x, n) == x \div Pow2(n)

\* The outputs of forward_dct_8x8 that rust_dct_and_quantize descales: i16
\* values carrying the factor 8 of the DCT.
DctOutputs == (-MaxCoef .. MaxCoef) \cup {-32767, -32764, -4100, 4100, 32764, 32767}

\* examples/quant_ffi_compare.rs lines 193-201, for one coefficient: the
\* factor 8 is removed by (c + 4) >> 3 in i32, an arithmetic shift, and the
\* result is quantized (quantize_block applies quantize_coef to each entry)
rust_dct_and_quantize(c, q) == quantize_coef(Shr(c + 4, 3), q)

QuantCalls ==
    {[op |-> "quality_to_scale_factor", quality |-> q] : q \in U8}
    \cup {[op |-> "create_quant_table", base |-> b, quality |-> q, force_baseline |-> fb] :
            b \in BaseTables, q \in U8, fb \in BOOLEAN}
    \cup {[op |-> "create_quant_tables", luma |-> FlatTable(16), chroma |-> b,
           quality |-> q, force_baseline |-> fb] :
            b \in BaseTables, q \in QualitySamples, fb \in BOOLEAN}
    \cup {[op |-> "quantize_coef", coef |-> c, quant |-> q] : c \in Coefs, q \in Quants}
    \cup {[op |-> "rust_dct_and_quantize", coef |-> c, quant |-> q] :
            c \in DctOutputs, q \in Quants}

InitQuant ==
    /\ IdleEncoder
    /\ call \in QuantCalls
    /\ ret = NoRet

\* lines 31-41
QualityToScaleFactor ==
    /\ call.op = "quality_to_scale_factor"
    /\ ~ret.done
    /\ ret' = [done |-> TRUE, val |-> quality_to_scale_factor(call.quality)]
    /\ UNCHANGED <<last_dc_val, emitted, hist, dc_table, ac_table, call, trial_vars, ffi_calls>>

\* lines 89-96
CreateQuantTable ==
    /\ call.op = "create_quant_table"
    /\ ~ret.done
    /\ ret' = [done |-> TRUE,
               val  |-> <<create_quant_table(call.base, call.quality, call.force_baseline)>>]
    /\ UNCHANGED <<last_dc_val, emitted, hist, dc_table, ac_table, call, trial_vars, ffi_calls>>

\* lines 107-123
CreateQuantTables ==
    /\ call.op = "create_quant_tables"
    /\ ~ret.done
    /\ ret' = [done |-> TRUE,
               val  |-> create_quant_tables(call.quality, call.luma, call.chroma,
                                            call.force_baseline)]
    /\ UNCHANGED <<last_dc_val, emitted, hist, dc_table, ac_table, call, trial_vars, ffi_calls>>

\* lines 134-142
QuantizeCoef ==
    /\ call.op = "quantize_coef"
    /\ ~ret.done
    /\ ret' = [done |-> TRUE, val |-> quantize_coef(call.coef, call.quant),
               dequantized |-> FALSE, deq |-> 0]
    /\ UNCHANGED <<last_dc_val, emitted, hist, dc_table, ac_table, call, trial_vars, ffi_calls>>

\* lines 153-155, applied to the quantized coefficient (the round trip of
\* test_quantize_dequantize)
DequantizeCoef ==
    /\ call.op = "quantize_coef"
    /\ ret.done
    /\ ~ret.dequantized
    /\ ret' = [ret EXCEPT !.dequantized = TRUE,
                          !.deq = dequantize_coef(ret.val, call.quant)]
    /\ UNCHANGED <<last_dc_val, emitted, hist, dc_table, ac_table, call, trial_vars, ffi_calls>>

\* examples/quant_ffi_compare.rs lines 187-203, the descaling and
\* quantization of one coefficient of the block
RustDctAndQuantize ==
    /\ call.op = "rust_dct_and_quantize"
    /\ ~ret.done
    /\ ret' = [done |-> TRUE, val |-> rust_dct_and_quantize(call.coef, call.quant),
               dequantized |-> TRUE, deq |-> 0]
    /\ UNCHANGED <<last_dc_val, emitted, hist, dc_table, ac_table, call, trial_vars, ffi_calls>>

NextQuant ==
    \/ RustDctAndQuantize
    \/ QualityToScaleFactor
    \/ CreateQuantTable
    \/ CreateQuantTables
    \/ QuantizeCoef
    \/ DequantizeCoef

SpecQuant == InitQuant /\ [][NextQuant]_vars

\* mozjpeg's integer jpeg_quality_scaling on a quality clamped to [1, 100]
IntegerQualityScaling(quality) ==
    LET q == IF quality < 1 THEN 1 ELSE IF quality > 100 THEN 100 ELSE quality
    IN  IF q < 50 THEN 5000 \div q ELSE 200 - 2 * q

\* the entry a base entry scales to
ScaledEntry(b, scale, force_baseline) ==
    LET e     == (b * scale + 50) \div 100
        limit == IF force_baseline THEN 255 ELSE 32767
    IN  IF e < 1 THEN 1 ELSE IF e > limit THEN limit ELSE e

\* the base tables of a table-building call, in the order of its result
BasesOf(c) == IF c.op = "create_quant_table" THEN <<c.base>> ELSE <<c.luma, c.chroma>>

\* C4: for every u8 quality, quality_to_scale_factor is the integer
\* jpeg_quality_scaling of the quality clamped to [1, 100]: 5000 div q' below
\* 50 and 200 - 2 q' from 50 on.
C4_QualityScaling ==
    (call.op = "quality_to_scale_factor" /\ ret.done) =>
        ret.val = IntegerQualityScaling(call.quality)

C4_Witness ==
    /\ call.op = "quality_to_scale_factor"
    /\ ret.done
    /\ call.quality = 3
    /\ ret.val = 1666

\* C5: every entry of a table built by create_quant_table / create_quant_tables
\* is (base * scale + 50) div 100 clamped to [1, 255] under force_baseline and
\* to [1, 32767] otherwise, so it is never 0 and never above 255 under
\* force_baseline.
C5_ScaledTableEntries ==
    (call.op \in {"create_quant_table", "create_quant_tables"} /\ ret.done) =>
        /\ Len(ret.val) = Len(BasesOf(call))
        /\ \A t \in 1 .. Len(ret.val) :
              /\ DOMAIN ret.val[t] = 0 .. DCTSIZE2 - 1
              /\ \A i \in 0 .. DCTSIZE2 - 1 :
                    /\ ret.val[t][i] = ScaledEntry(BasesOf(call)[t][i],
                                                   IntegerQualityScaling(call.quality),
                                                   call.force_baseline)
                    /\ ret.val[t][i] >= 1
                    /\ call.force_baseline => ret.val[t][i] <= 255

C5_Witness ==
    /\ call.op = "create_quant_table"
    /\ ret.done
    /\ call.base = FlatTable(300)
    /\ call.quality = 100
    /\ call.force_baseline
    /\ ret.val = <<FlatTable(1)>>

\* C6: quantize_coef(c, q) is c / q rounded to the nearest integer, ties away
\* from zero, so it is odd in c; and dequantizing it gives c back when q
\* divides c.
C6_RoundHalfAway ==
    (call.op = "quantize_coef" /\ ret.done) =>
        LET c == call.coef
            q == call.quant
            r == ret.val
        IN  /\ 2 * Abs(c - r * q) <= q
            /\ 2 * Abs(c - r * q) = q => Abs(r * q) > Abs(c)
            /\ quantize_coef(-c, q) = -r
            /\ (ret.dequantized /\ c % q = 0) => ret.deq = c

C6_Witness ==
    /\ call.op = "quantize_coef"
    /\ ret.done
    /\ ret.dequantized
    /\ call.coef = -15
    /\ call.quant = 10
    /\ ret.val = -2
    /\ ret.deq = -20

----------------------------------------------------------------------------
(* dct.rs *)

DCTSIZE == 8

CONST_BITS == 13

PASS1_BITS == 2

FIX_0_298631336 == 2446

FIX_0_390180644 == 3196

FIX_0_541196100 == 4433

FIX_0_765366865 == 6270

FIX_0_899976223 == 7373

FIX_1_175875602 == 9633

FIX_1_501321110 == 12299

FIX_1_847759065 == 15137

FIX_1_961570560 == 16069

FIX_2_053119869 == 16819

FIX_2_562915447 == 20995

FIX_3_072711026 == 25172

\* `x << n` (no bit is lost for the magnitudes of the transform)
Shl(x, n) == x * Pow2(n)

\* a descale whose rounding term is 2^n instead of 2^(n-1)
descale_wrong_bias(x, n) == Shr(x + Shl(1, n), n)

\* lines 38-41
descale(x, n) == Shr(x + Shl(1, n - 1), n)

\* a butterfly stage that pairs element 0 with element 6 instead of 7
butterflies_misindexed(d) ==
    [tmp0 |-> d[1] + d[7], tmp7 |-> d[1] - d[7],
     tmp1 |-> d[2] + d[7], tmp6 |-> d[2] - d[7],
     tmp2 |-> d[3] + d[6], tmp5 |-> d[3] - d[6],
     tmp3 |-> d[4] + d[5], tmp4 |-> d[4] - d[5]]

\* lines 69-76 and 116-123: the sums and differences of the mirrored pairs of
\* the eight elements d[1..8] of a row or a column
butterflies(d) ==
    [tmp0 |-> d[1] + d[8], tmp7 |-> d[1] - d[8],
     tmp1 |-> d[2] + d[7], tmp6 |-> d[2] - d[7],
     tmp2 |-> d[3] + d[6], tmp5 |-> d[3] - d[6],
     tmp3 |-> d[4] + d[5], tmp4 |-> d[4] - d[5]]

\* lines 79-110 (pass 1) and 126-157 (pass 2): the eight outputs of one
\* one-dimensional transform, in output order 0..7.  Pass 1 shifts outputs 0
\* and 4 left by PASS1_BITS and descales the others by CONST_BITS - PASS1_BITS;
\* pass 2 descales outputs 0 and 4 by PASS1_BITS and the others by
\* CONST_BITS + PASS1_BITS.
dct_1d(d, pass) ==
    LET b     == butterflies(d)
        tmp10 == b.tmp0 + b.tmp3
        tmp13 == b.tmp0 - b.tmp3
        tmp11 == b.tmp1 + b.tmp2
        tmp12 == b.tmp1 - b.tmp2
        ez1   == (tmp12 + tmp13) * FIX_0_541196100
        z1    == b.tmp4 + b.tmp7
        z2    == b.tmp5 + b.tmp6
        z3    == b.tmp4 + b.tmp6
        z4    == b.tmp5 + b.tmp7
        z5    == (z3 + z4) * FIX_1_175875602
        tmp4  == b.tmp4 * FIX_0_298631336
        tmp5  == b.tmp5 * FIX_2_053119869
        tmp6  == b.tmp6 * FIX_3_072711026
        tmp7  == b.tmp7 * FIX_1_501321110
        mz1   == z1 * (-FIX_0_899976223)
        mz2   == z2 * (-FIX_2_562915447)
        mz3   == z3 * (-FIX_1_961570560) + z5
        mz4   == z4 * (-FIX_0_390180644) + z5
        n     == IF pass = 1 THEN CONST_BITS - PASS1_BITS ELSE CONST_BITS + PASS1_BITS
    IN  << IF pass = 1 THEN Shl(tmp10 + tmp11, PASS1_BITS)
                       ELSE descale(tmp10 + tmp11, PASS1_BITS),
           descale(tmp7 + mz1 + mz4, n),
           descale(ez1 + tmp13 * FIX_0_765366865, n),
           descale(tmp6 + mz2 + mz3, n),
           IF pass = 1 THEN Shl(tmp10 - tmp11, PASS1_BITS)
                       ELSE descale(tmp10 - tmp11, PASS1_BITS),
           descale(tmp5 + mz2 + mz4, n),
           descale(ez1 + tmp12 * (-FIX_1_847759065), n),
           descale(tmp4 + mz1 + mz3, n) >>

\* A block is kept as its eight rows: element base + col of the Rust array,
\* base = row * DCTSIZE, is m[row + 1][col + 1].
Column(m, c) == <<m[1][c], m[2][c], m[3][c], m[4][c], m[5][c], m[6][c], m[7][c], m[8][c]>>

Transpose(m) ==
    <<Column(m, 1), Column(m, 2), Column(m, 3), Column(m, 4),
      Column(m, 5), Column(m, 6), Column(m, 7), Column(m, 8)>>

\* lines 66-111: pass 1, every row transformed in place
row_pass(data) ==
    <<dct_1d(data[1], 1), dct_1d(data[2], 1), dct_1d(data[3], 1), dct_1d(data[4], 1),
      dct_1d(data[5], 1), dct_1d(data[6], 1), dct_1d(data[7], 1), dct_1d(data[8], 1)>>

\* lines 115-158: pass 2, every column transformed in place
col_pass(data) ==
    Transpose(<<dct_1d(Column(data, 1), 2), dct_1d(Column(data, 2), 2),
                dct_1d(Column(data, 3), 2), dct_1d(Column(data, 4), 2),
                dct_1d(Column(data, 5), 2), dct_1d(Column(data, 6), 2),
                dct_1d(Column(data, 7), 2), dct_1d(Column(data, 8), 2)>>)

\* lines 161-163: coeffs[i] = data[i] as i16
to_coeffs(data) == [r \in 1 .. DCTSIZE |-> [c \in 1 .. DCTSIZE |-> ToI16(data[r][c])]]

\* lines 55-164
forward_dct_8x8(samples) ==
    CHOOSE coeffs \in {to_coeffs(p2) : p2 \in {col_pass(p1) : p1 \in {row_pass(samples)}}} : TRUE

\* The blocks callers pass: level-shifted 8-bit samples, -128 .. 127.  Flat
\* blocks of every sample value; blocks whose rows are mirror images of
\* themselves (left-right symmetric), their transposes (top-bottom symmetric)
\* and blocks without symmetry, built from four samples.
Samples == -128 .. 127

SampleValues == {-128, 5, 127}

HalfRows == [1 .. 4 -> SampleValues]

Flat(v) == <<<<v, v, v, v, v, v, v, v>>, <<v, v, v, v, v, v, v, v>>,
             <<v, v, v, v, v, v, v, v>>, <<v, v, v, v, v, v, v, v>>,
             <<v, v, v, v, v, v, v, v>>, <<v, v, v, v, v, v, v, v>>,
             <<v, v, v, v, v, v, v, v>>, <<v, v, v, v, v, v, v, v>>>>

\* h rotated by k places
Rot(h, k) == <<h[((k) % 4) + 1], h[((k + 1) % 4) + 1], h[((k + 2) % 4) + 1], h[((k + 3) % 4) + 1]>>

Mirror(h) == <<h[1], h[2], h[3], h[4], h[4], h[3], h[2], h[1]>>

Twice(h) == <<h[1], h[2], h[3], h[4], h[1], h[2], h[3], h[4]>>

LeftRightBlock(h) ==
    <<Mirror(Rot(h, 0)), Mirror(Rot(h, 1)), Mirror(Rot(h, 2)), Mirror(Rot(h, 3)),
      Mirror(Rot(h, 0)), Mirror(Rot(h, 1)), Mirror(Rot(h, 2)), Mirror(Rot(h, 3))>>

TopBottomBlock(h) == Transpose(LeftRightBlock(h))

PlainBlock(h) ==
    <<Twice(Rot(h, 0)), Twice(Rot(h, 1)), Twice(Rot(h, 2)), Twice(Rot(h, 3)),
      Twice(Rot(h, 1)), Twice(Rot(h, 0)), Twice(Rot(h, 3)), Twice(Rot(h, 3))>>

DctBlocks ==
    {Flat(v) : v \in Samples}
    \cup {LeftRightBlock(h) : h \in HalfRows}
    \cup {TopBottomBlock(h) : h \in HalfRows}
    \cup {PlainBlock(h) : h \in HalfRows}

InitDct ==
    /\ IdleEncoder
    /\ call \in {[op |-> "forward_dct_8x8", samples |-> b] : b \in DctBlocks}
    /\ ret = NoRet

\* lines 55-164
ForwardDct8x8 ==
    /\ call.op = "forward_dct_8x8"
    /\ ~ret.done
    /\ ret' = [done |-> TRUE, val |-> forward_dct_8x8(call.samples)]
    /\ UNCHANGED <<last_dc_val, emitted, hist, dc_table, ac_table, call, trial_vars, ffi_calls>>

NextDct == ForwardDct8x8

SpecDct == InitDct /\ [][NextDct]_vars

Index8 == 1 .. DCTSIZE

IsFlat(m) == \A r \in Index8, c \in Index8 : m[r][c] = m[1][1]

\* sample[r][c] = sample[r][7 - c]
LeftRightSymmetric(m) == \A r \in Index8, c \in Index8 : m[r][c] = m[r][9 - c]

\* sample[r][c] = sample[7 - r][c]
TopBottomSymmetric(m) == \A r \in Index8, c \in Index8 : m[r][c] = m[9 - r][c]

\* the odd-numbered rows and columns 1, 3, 5, 7 of the block
OddIndex == {2, 4, 6, 8}

\* C7: a flat block of value v in -128 .. 127 transforms to DC = 64 v with
\* every AC coefficient of absolute value at most 1; for v = 0 every output
\* is 0.
C7_FlatBlock ==
    (call.op = "forward_dct_8x8" /\ ret.done /\ IsFlat(call.samples)
        /\ call.samples[1][1] \in Samples) =>
        LET v == call.samples[1][1]
        IN  /\ ret.val[1][1] = 64 * v
            /\ \A r \in Index8, c \in Index8 :
                  <<r, c>> # <<1, 1>> => Abs(ret.val[r][c]) <= 1
            /\ v = 0 => \A r \in Index8, c \in Index8 : ret.val[r][c] = 0

C7_Witness ==
    /\ call.op = "forward_dct_8x8"
    /\ ret.done
    /\ call.samples = Flat(-128)
    /\ ret.val[1][1] = -8192
    /\ ret.val[1][2] = 0

\* C8: a left-right mirror symmetric block has every coefficient of an
\* odd-numbered column equal to 0, a top-bottom mirror symmetric block every
\* coefficient of an odd-numbered row.
C8_SymmetryClasses ==
    (call.op = "forward_dct_8x8" /\ ret.done) =>
        /\ LeftRightSymmetric(call.samples) =>
              \A r \in Index8, c \in OddIndex : ret.val[r][c] = 0
        /\ TopBottomSymmetric(call.samples) =>
              \A r \in OddIndex, c \in Index8 : ret.val[r][c] = 0

C8_Witness ==
    /\ call.op = "forward_dct_8x8"
    /\ ret.done
    /\ call.samples = LeftRightBlock(<<-128, 5, 127, 5>>)
    /\ LeftRightSymmetric(call.samples)
    /\ ~TopBottomSymmetric(call.samples)
    /\ ret.val[2][5] = -1531
    /\ ret.val[2][4] = 0

----------------------------------------------------------------------------
(* scan_optimize: the candidate scans of the scan search, and the reference *)
(* list of tests/scan_verification.rs                                      *)

\* ScanInfo: the components of the scan (comps_in_scan of them), Ss, Se, Ah, Al
ScanInfo(comps, ss, se, ah, al) ==
    [comps_in_scan |-> Len(comps), component_index |-> comps,
     ss |-> ss, se |-> se, ah |-> ah, al |-> al]

\* the two halves of the spectrum split after position s, at Al = al
split_pair(comp, s, al) ==
    <<ScanInfo(<<comp>>, 1, s, 0, al), ScanInfo(<<comp>>, s + 1, DCTSIZE2 - 1, 0, al)>>

\* one pair per frequency split, for each of the components in turn
RECURSIVE split_scans(_, _)
split_scans(comps, splits) ==
    IF splits = <<>> THEN <<>>
    ELSE SeqCat([i \in 1 .. Len(comps) |-> split_pair(comps[i], Head(splits), 0)])
         \o split_scans(comps, Tail(splits))

\* the successive-approximation scans for Al = al .. al_max - 1: the refinements
\* of 1..63 from Al + 1 to Al, then the base pair at Al + 1
RECURSIVE sa_scans(_, _, _)
sa_scans(comps, al, al_max) ==
    IF al >= al_max THEN <<>>
    ELSE [i \in 1 .. Len(comps) |-> ScanInfo(<<comps[i]>>, 1, DCTSIZE2 - 1, al + 1, al)]
         \o SeqCat([i \in 1 .. Len(comps) |-> split_pair(comps[i], 8, al + 1)])
         \o sa_scans(comps, al + 1, al_max)

\* the AC candidates of a group of components (luma, or the two chroma)
ac_search_scans(comps, al_max, splits) ==
    SeqCat([i \in 1 .. Len(comps) |-> split_pair(comps[i], 8, 0)])
    \o sa_scans(comps, 0, al_max)
    \o [i \in 1 .. Len(comps) |-> ScanInfo(<<comps[i]>>, 1, DCTSIZE2 - 1, 0, 0)]
    \o split_scans(comps, splits)

\* generate_search_scans(3, config) with dc_scan_opt_mode = 0
generate_search_scans(config) ==
    <<ScanInfo(<<0, 1, 2>>, 0, 0, 0, 0)>>
    \o ac_search_scans(<<0>>, config.al_max_luma, config.frequency_splits)
    \o <<ScanInfo(<<1, 2>>, 0, 0, 0, 0),
         ScanInfo(<<1>>, 0, 0, 0, 0),
         ScanInfo(<<2>>, 0, 0, 0, 0)>>
    \o ac_search_scans(<<1, 2>>, config.al_max_chroma, config.frequency_splits)

\* get_c_reference_scans: (comps_in_scan, component_indices, Ss, Se, Ah, Al)
\* entries 0-2: the DC scan of all components and the luma base scans
c_reference_luma_base ==
    <<<<3, <<0, 1, 2, 0>>, 0, 0, 0, 0>>,
      <<1, <<0, 0, 0, 0>>, 1, 8, 0, 0>>,
      <<1, <<0, 0, 0, 0>>, 9, 63, 0, 0>>>>

\* a list whose first luma refinement comes after the scans at Al = 1
c_reference_luma_sa_refine_last ==
    <<<<1, <<0, 0, 0, 0>>, 1, 8, 0, 1>>,
      <<1, <<0, 0, 0, 0>>, 9, 63, 0, 1>>,
      <<1, <<0, 0, 0, 0>>, 1, 63, 1, 0>>,
      <<1, <<0, 0, 0, 0>>, 1, 63, 2, 1>>,
      <<1, <<0, 0, 0, 0>>, 1, 8, 0, 2>>,
      <<1, <<0, 0, 0, 0>>, 9, 63, 0, 2>>,
      <<1, <<0, 0, 0, 0>>, 1, 63, 3, 2>>,
      <<1, <<0, 0, 0, 0>>, 1, 8, 0, 3>>,
      <<1, <<0, 0, 0, 0>>, 9, 63, 0, 3>>>>

\* entries 3-11: luma successive approximation
c_reference_luma_sa ==
    <<<<1, <<0, 0, 0, 0>>, 1, 63, 1, 0>>,
      <<1, <<0, 0, 0, 0>>, 1, 8, 0, 1>>,
      <<1, <<0, 0, 0, 0>>, 9, 63, 0, 1>>,
      <<1, <<0, 0, 0, 0>>, 1, 63, 2, 1>>,
      <<1, <<0, 0, 0, 0>>, 1, 8, 0, 2>>,
      <<1, <<0, 0, 0, 0>>, 9, 63, 0, 2>>,
      <<1, <<0, 0, 0, 0>>, 1, 63, 3, 2>>,
      <<1, <<0, 0, 0, 0>>, 1, 8, 0, 3>>,
      <<1, <<0, 0, 0, 0>>, 9, 63, 0, 3>>>>

\* entries 12-22: luma full scan and frequency splits
c_reference_luma_splits ==
    <<<<1, <<0, 0, 0, 0>>, 1, 63, 0, 0>>,
      <<1, <<0, 0, 0, 0>>, 1, 2, 0, 0>>,
      <<1, <<0, 0, 0, 0>>, 3, 63, 0, 0>>,
      <<1, <<0, 0, 0, 0>>, 1, 8, 0, 0>>,
      <<1, <<0, 0, 0, 0>>, 9, 63, 0, 0>>,
      <<1, <<0, 0, 0, 0>>, 1, 5, 0, 0>>,
      <<1, <<0, 0, 0, 0>>, 6, 63, 0, 0>>,
      <<1, <<0, 0, 0, 0>>, 1, 12, 0, 0>>,
      <<1, <<0, 0, 0, 0>>, 13, 63, 0, 0>>,
      <<1, <<0, 0, 0, 0>>, 1, 18, 0, 0>>,
      <<1, <<0, 0, 0, 0>>, 19, 63, 0, 0>>>>

\* entries 23-29: chroma DC variants and base scans
c_reference_chroma_base ==
    <<<<2, <<1, 2, 0, 0>>, 0, 0, 0, 0>>,
      <<1, <<1, 0, 0, 0>>, 0, 0, 0, 0>>,
      <<1, <<2, 0, 0, 0>>, 0, 0, 0, 0>>,
      <<1, <<1, 0, 0, 0>>, 1, 8, 0, 0>>,
      <<1, <<1, 0, 0, 0>>, 9, 63, 0, 0>>,
      <<1, <<2, 0, 0, 0>>, 1, 8, 0, 0>>,
      <<1, <<2, 0, 0, 0>>, 9, 63, 0, 0>>>>

c_reference_chroma_sa_refine_early ==
    <<<<1, <<1, 0, 0, 0>>, 1, 63, 2, 1>>,
      <<1, <<1, 0, 0, 0>>, 1, 63, 1, 0>>,
      <<1, <<2, 0, 0, 0>>, 1, 63, 1, 0>>,
      <<1, <<1, 0, 0, 0>>, 1, 8, 0, 1>>,
      <<1, <<1, 0, 0, 0>>, 9, 63, 0, 1>>,
      <<1, <<2, 0, 0, 0>>, 1, 8, 0, 1>>,
      <<1, <<2, 0, 0, 0>>, 9, 63, 0, 1>>,
      <<1, <<2, 0, 0, 0>>, 1, 63, 2, 1>>,
      <<1, <<1, 0, 0, 0>>, 1, 8, 0, 2>>,
      <<1, <<1, 0, 0, 0>>, 9, 63, 0, 2>>,
      <<1, <<2, 0, 0, 0>>, 1, 8, 0, 2>>,
      <<1, <<2, 0, 0, 0>>, 9, 63, 0, 2>>>>

\* entries 30-41: chroma successive approximation
c_reference_chroma_sa ==
    <<<<1, <<1, 0, 0, 0>>, 1, 63, 1, 0>>,
      <<1, <<2, 0, 0, 0>>, 1, 63, 1, 0>>,
      <<1, <<1, 0, 0, 0>>, 1, 8, 0, 1>>,
      <<1, <<1, 0, 0, 0>>, 9, 63, 0, 1>>,
      <<1, <<2, 0, 0, 0>>, 1, 8, 0, 1>>,
      <<1, <<2, 0, 0, 0>>, 9, 63, 0, 1>>,
      <<1, <<1, 0, 0, 0>>, 1, 63, 2, 1>>,
      <<1, <<2, 0, 0, 0>>, 1, 63, 2, 1>>,
      <<1, <<1, 0, 0, 0>>, 1, 8, 0, 2>>,
      <<1, <<1, 0, 0, 0>>, 9, 63, 0, 2>>,
      <<1, <<2, 0, 0, 0>>, 1, 8, 0, 2>>,
      <<1, <<2, 0, 0, 0>>, 9, 63, 0, 2>>>>

\* entries 42-63: chroma full scans and frequency splits
c_reference_chroma_splits ==
    <<<<1, <<1, 0, 0, 0>>, 1, 63, 0, 0>>,
      <<1, <<2, 0, 0, 0>>, 1, 63, 0, 0>>,
      <<1, <<1, 0, 0, 0>>, 1, 2, 0, 0>>,
      <<1, <<1, 0, 0, 0>>, 3, 63, 0, 0>>,
      <<1, <<2, 0, 0, 0>>, 1, 2, 0, 0>>,
      <<1, <<2, 0, 0, 0>>, 3, 63, 0, 0>>,
      <<1, <<1, 0, 0, 0>>, 1, 8, 0, 0>>,
      <<1, <<1, 0, 0, 0>>, 9, 63, 0, 0>>,
      <<1, <<2, 0, 0, 0>>, 1, 8, 0, 0>>,
      <<1, <<2, 0, 0, 0>>, 9, 63, 0, 0>>,
      <<1, <<1, 0, 0, 0>>, 1, 5, 0, 0>>,
      <<1, <<1, 0, 0, 0>>, 6, 63, 0, 0>>,
      <<1, <<2, 0, 0, 0>>, 1, 5, 0, 0>>,
      <<1, <<2, 0, 0, 0>>, 6, 63, 0, 0>>,
      <<1, <<1, 0, 0, 0>>, 1, 12, 0, 0>>,
      <<1, <<1, 0, 0, 0>>, 13, 63, 0, 0>>,
      <<1, <<2, 0, 0, 0>>, 1, 12, 0, 0>>,
      <<1, <<2, 0, 0, 0>>, 13, 63, 0, 0>>,
      <<1, <<1, 0, 0, 0>>, 1, 18, 0, 0>>,
      <<1, <<1, 0, 0, 0>>, 19, 63, 0, 0>>,
      <<1, <<2, 0, 0, 0>>, 1, 18, 0, 0>>,
      <<1, <<2, 0, 0, 0>>, 19, 63, 0, 0>>>>

\* lines 133-209
get_c_reference_scans ==
    c_reference_luma_base \o c_reference_luma_sa \o c_reference_luma_splits
    \o c_reference_chroma_base \o c_reference_chroma_sa \o c_reference_chroma_splits

\* lines 62-95: the comparison of a generated scan with a reference entry
scan_matches_reference(rust, c) ==
    /\ rust.comps_in_scan = c[1]
    /\ rust.ss = c[3]
    /\ rust.se = c[4]
    /\ rust.ah = c[5]
    /\ rust.al = c[6]
    /\ \A j \in 1 .. c[1] : rust.component_index[j] = c[2][j]

\* The configurations the planner is called with: successive-approximation
\* depths from 0 (ScanSearchConfig::default()) up to the depths of the
\* reference run, and the leading part of its frequency splits.
MaxAlLuma == 3

MaxAlChroma == 2

ReferenceSplits == <<2, 8, 5, 12, 18>>

ScanConfigs ==
    {[al_max_luma |-> l, al_max_chroma |-> c,
      frequency_splits |-> SubSeq(ReferenceSplits, 1, n), dc_scan_opt_mode |-> 0] :
        l \in 0 .. MaxAlLuma, c \in 0 .. MaxAlChroma, n \in 0 .. Len(ReferenceSplits)}

\* lines 30-35: the configuration of the reference run
ReferenceConfig ==
    [al_max_luma |-> 3, al_max_chroma |-> 2,
     frequency_splits |-> ReferenceSplits, dc_scan_opt_mode |-> 0]

InitScan ==
    /\ IdleEncoder
    /\ call \in {[op |-> "generate_search_scans", num_components |-> 3, config |-> cfg] :
                    cfg \in ScanConfigs}
    /\ ret = NoRet

\* generate_search_scans(3, &config)
GenerateSearchScans ==
    /\ call.op = "generate_search_scans"
    /\ ~ret.done
    /\ ret' = [done |-> TRUE, val |-> generate_search_scans(call.config)]
    /\ UNCHANGED <<last_dc_val, emitted, hist, dc_table, ac_table, call, trial_vars, ffi_calls>>

NextScan == GenerateSearchScans

SpecScan == InitScan /\ [][NextScan]_vars

ScanSearchConfig_default ==
    [al_max_luma |-> 0, al_max_chroma |-> 0,
     frequency_splits |-> ReferenceSplits, dc_scan_opt_mode |-> 0]

\* C11: for three-component YCbCr with ScanSearchConfig::default() the
\* planner generates exactly 64 candidate scans.
C11_DefaultConfigScans ==
    (call.op = "generate_search_scans" /\ ret.done
        /\ call.config = ScanSearchConfig_default) =>
        Len(ret.val) = 64

\* The same count for every list of frequency splits the default could carry:
\* with both depths at 0 the planner returns 13 + 6 * (number of splits) scans.
C11_DefaultDepthCount ==
    (call.op = "generate_search_scans" /\ ret.done
        /\ call.config.al_max_luma = 0 /\ call.config.al_max_chroma = 0) =>
        Len(ret.val) = 13 + 6 * Len(call.config.frequency_splits)

----------------------------------------------------------------------------
(* scan_trial.rs: the sequential scan trial encoder *)

\* lines 21-27: CoeffState::default()
CoeffState_default == [first_al |-> 0, coded |-> FALSE]

\* lines 40-48: BlockState::default()
BlockState_default ==
    [ac_state |-> [k \in 1 .. DCTSIZE2 - 1 |-> CoeffState_default],
     dc_first_al |-> 0, dc_coded |-> FALSE]

\* (n + d - 1) / d on usize
CeilDiv(n, d) == (n + d - 1) \div d

\* lines 94-132: the fields new() stores.  The block slices are known by
\* their lengths; `unencodable` is the set of components for which the
\* ProgressiveEncoder returns an error (a block it cannot code with the
\* tables it was given).
NewTrial(width, height, h_samp, v_samp, unencodable) ==
    LET mcu_cols == CeilDiv(width, 8 * h_samp)
        mcu_rows == CeilDiv(height, 8 * v_samp)
    IN  [built |-> TRUE,
         y_len |-> mcu_rows * mcu_cols * h_samp * v_samp,
         cb_len |-> mcu_rows * mcu_cols,
         cr_len |-> mcu_rows * mcu_cols,
         mcu_rows |-> mcu_rows, mcu_cols |-> mcu_cols,
         h_samp |-> h_samp, v_samp |-> v_samp,
         actual_width |-> width, actual_height |-> height,
         chroma_width |-> CeilDiv(width, h_samp),
         chroma_height |-> CeilDiv(height, v_samp),
         unencodable |-> unencodable]

\* blocks.len() of a component
blocks_len(t, comp_idx) ==
    CASE comp_idx = 0 -> t.y_len
      [] comp_idx = 1 -> t.cb_len
      [] comp_idx = 2 -> t.cr_len
      [] OTHER -> 0

\* lines 218-223 and 280-284: blocks per row of a component
blocks_per_row(t, comp_idx) ==
    IF comp_idx = 0 THEN t.mcu_cols * t.h_samp ELSE t.mcu_cols

\* lines 199-240: the blocks of one component in one MCU that a DC scan
\* visits, in order (v outer, h inner), as <<comp_idx, block_idx>>
dc_mcu_visits(t, comp_idx, mcu_row, mcu_col) ==
    IF comp_idx \notin {0, 1, 2} THEN <<>>
    ELSE LET h_blocks == IF comp_idx = 0 THEN t.h_samp ELSE 1
             v_blocks == IF comp_idx = 0 THEN t.v_samp ELSE 1
             idx(v, h) == (mcu_row * v_blocks + v) * blocks_per_row(t, comp_idx)
                          + mcu_col * h_blocks + h
             all == SeqCat([v \in 1 .. v_blocks |->
                        [h \in 1 .. h_blocks |-> <<comp_idx, idx(v - 1, h - 1)>>]])
         IN  SelectSeq(all, LAMBDA b : b[2] < blocks_len(t, comp_idx))

\* lines 195-245: every block a DC scan visits, in order
dc_visits(t, scan) ==
    SeqCat([r \in 1 .. t.mcu_rows |->
        SeqCat([c \in 1 .. t.mcu_cols |->
            SeqCat([i \in 1 .. scan.comps_in_scan |->
                dc_mcu_visits(t, scan.component_index[i], r - 1, c - 1)])])])

\* an AC scan that walked the MCU-padded grid of the component
ac_visits_mcu_padded(t, scan) ==
    LET comp_idx == scan.component_index[1]
        num_block_cols == blocks_per_row(t, comp_idx)
        num_block_rows == IF comp_idx = 0 THEN t.mcu_rows * t.v_samp ELSE t.mcu_rows
        all == SeqCat([r \in 1 .. num_block_rows |->
                   [c \in 1 .. num_block_cols |->
                       <<comp_idx, (r - 1) * blocks_per_row(t, comp_idx) + (c - 1)>>]])
    IN  IF comp_idx \notin {0, 1, 2} THEN <<>>
        ELSE SelectSeq(all, LAMBDA b : b[2] < blocks_len(t, comp_idx))

\* lines 257-306: every block an AC scan visits, in order
ac_visits(t, scan) ==
    LET comp_idx == scan.component_index[1]
        num_block_cols == IF comp_idx = 0 THEN CeilDiv(t.actual_width, 8)
                          ELSE CeilDiv(t.chroma_width, 8)
        num_block_rows == IF comp_idx = 0 THEN CeilDiv(t.actual_height, 8)
                          ELSE CeilDiv(t.chroma_height, 8)
        all == SeqCat([r \in 1 .. num_block_rows |->
                   [c \in 1 .. num_block_cols |->
                       <<comp_idx, (r - 1) * blocks_per_row(t, comp_idx) + (c - 1)>>]])
    IN  IF comp_idx \notin {0, 1, 2} THEN <<>>
        ELSE SelectSeq(all, LAMBDA b : b[2] < blocks_len(t, comp_idx))

\* one call on the ProgressiveEncoder of a scan, standing for the bytes it
\* hands to the scan's BitWriter
EncoderCall(op, comp_idx, block_idx, scan) ==
    [op |-> op, comp |-> comp_idx, block |-> block_idx,
     ss |-> scan.ss, se |-> scan.se, ah |-> scan.ah, al |-> scan.al]

buffer_len_before_flush(buffer) == Len(buffer) - 1

\* buffer.len()
buffer_len(buffer) == Len(buffer)

\* the block states of the three components
BlockStates(y, cb, cr) == [y |-> y, cb |-> cb, cr |-> cr]

\* state[block_idx] of a component
state_of(states, comp_idx, block_idx) ==
    CASE comp_idx = 0 -> states.y[block_idx + 1]
      [] comp_idx = 1 -> states.cb[block_idx + 1]
      [] comp_idx = 2 -> states.cr[block_idx + 1]

mark_dc_coded_flag_only(states, comp_idx, block_idx, al) ==
    CASE comp_idx = 0 -> [states EXCEPT !.y[block_idx + 1].dc_coded = TRUE]
      [] comp_idx = 1 -> [states EXCEPT !.cb[block_idx + 1].dc_coded = TRUE]
      [] comp_idx = 2 -> [states EXCEPT !.cr[block_idx + 1].dc_coded = TRUE]

\* lines 237-238: block_state.dc_coded = true; block_state.dc_first_al = al
mark_dc_coded(states, comp_idx, block_idx, al) ==
    CASE comp_idx = 0 ->
            [states EXCEPT !.y[block_idx + 1].dc_coded = TRUE,
                           !.y[block_idx + 1].dc_first_al = al]
      [] comp_idx = 1 ->
            [states EXCEPT !.cb[block_idx + 1].dc_coded = TRUE,
                           !.cb[block_idx + 1].dc_first_al = al]
      [] comp_idx = 2 ->
            [states EXCEPT !.cr[block_idx + 1].dc_coded = TRUE,
                           !.cr[block_idx + 1].dc_first_al = al]

\* whether the ProgressiveEncoder returns an error for this call: the calls
\* that code a block with a Huffman table do, for an unencodable component
encoder_fails(t, op, comp_idx) ==
    op # "encode_dc_refine" /\ comp_idx \in t.unencodable

\* lines 225-240: the body of the DC loop from the k-th visited block on;
\* an error leaves the loop with the states changed so far
RECURSIVE dc_scan_loop(_, _, _, _, _, _)
dc_scan_loop(t, scan, visits, k, states, out) ==
    IF k > Len(visits) THEN [states |-> states, out |-> out, ok |-> TRUE]
    ELSE LET comp_idx == visits[k][1]
             block_idx == visits[k][2]
             op == IF scan.ah # 0 THEN "encode_dc_refine" ELSE "encode_dc_first"
             coded == Append(out, EncoderCall(op, comp_idx, block_idx, scan))
         IN  IF scan.ah # 0
             THEN IF state_of(states, comp_idx, block_idx).dc_coded
                  THEN dc_scan_loop(t, scan, visits, k + 1, states, coded)
                  ELSE dc_scan_loop(t, scan, visits, k + 1, states, out)
             ELSE IF encoder_fails(t, op, comp_idx)
                  THEN [states |-> states, out |-> out, ok |-> FALSE]
                  ELSE dc_scan_loop(t, scan, visits, k + 1,
                                    mark_dc_coded(states, comp_idx, block_idx, scan.al),
                                    coded)

encode_dc_scan_unconditional(t, states, scan) ==
    IF scan.ah # 0
    THEN [states |-> states,
          out |-> [k \in 1 .. Len(dc_visits(t, scan)) |->
                      EncoderCall("encode_dc_refine", dc_visits(t, scan)[k][1],
                                  dc_visits(t, scan)[k][2], scan)],
          ok |-> TRUE]
    ELSE dc_scan_loop(t, scan, dc_visits(t, scan), 1, states, <<>>)

\* lines 186-248
encode_dc_scan(t, states, scan) ==
    dc_scan_loop(t, scan, dc_visits(t, scan), 1, states, <<>>)

\* lines 251-309: the block states are read into `_state` and never written
encode_ac_scan(t, states, scan) ==
    LET visits == ac_visits(t, scan)
        op == IF scan.ah # 0 THEN "encode_ac_refine" ELSE "encode_ac_first"
    IN  IF visits # <<>> /\ encoder_fails(t, op, scan.component_index[1])
        THEN [states |-> states, out |-> <<>>, ok |-> FALSE]
        ELSE [states |-> states,
              out |-> [k \in 1 .. Len(visits) |->
                          EncoderCall(op, visits[k][1], visits[k][2], scan)],
              ok |-> TRUE]

finish_scan_after_flush(scan) ==
    <<[op |-> "flush"],
      [op |-> "finish_scan",
       table |-> IF scan.ss > 0
                 THEN IF scan.component_index[1] = 0 THEN "ac_luma" ELSE "ac_chroma"
                 ELSE "none"]>>

\* lines 166-176: encoder.finish_scan(ac_table), then bit_writer.flush()
finish_scan(scan) ==
    <<[op |-> "finish_scan",
       table |-> IF scan.ss > 0
                 THEN IF scan.component_index[1] = 0 THEN "ac_luma" ELSE "ac_chroma"
                 ELSE "none"],
      [op |-> "flush"]>>

\* lines 151-183: the states after the scan and, unless a call failed, the
\* scan's buffer and its size
encode_scan(t, states, scan) ==
    LET r == IF scan.ss = 0 /\ scan.se = 0
             THEN encode_dc_scan(t, states, scan)
             ELSE encode_ac_scan(t, states, scan)
        buffer == r.out \o finish_scan(scan)
    IN  IF r.ok
        THEN [states |-> r.states, ok |-> TRUE, buffer |-> buffer,
              size |-> buffer_len(buffer)]
        ELSE [states |-> r.states, ok |-> FALSE]

\* the reference entry (comps, indices, Ss, Se, Ah, Al) as a ScanInfo
ReferenceScanInfo(c) == ScanInfo(SubSeq(c[2], 1, c[1]), c[3], c[4], c[5], c[6])

\* the 64 candidate scans
CandidateScans ==
    [i \in 1 .. Len(get_c_reference_scans) |-> ReferenceScanInfo(get_c_reference_scans[i])]

\* The encoders and scan lists of the model: 4:4:4, 4:2:0 with and without
\* padding blocks, and a 4:2:2 image whose Cr blocks cannot be coded.
TrialEncoders ==
    {NewTrial(8, 8, 1, 1, {}), NewTrial(9, 8, 2, 2, {}),
     NewTrial(16, 16, 2, 2, {}), NewTrial(24, 8, 2, 1, {2})}

TrialScanLists ==
    {CandidateScans,
     <<>>,
     <<ScanInfo(<<0, 1, 2>>, 0, 0, 0, 1), ScanInfo(<<0>>, 1, 5, 0, 2),
       ScanInfo(<<0, 1, 2>>, 0, 0, 1, 0), ScanInfo(<<1>>, 0, 0, 0, 0),
       ScanInfo(<<1>>, 6, 63, 0, 1), ScanInfo(<<0>>, 1, 5, 2, 1)>>,
     <<ScanInfo(<<0>>, 0, 0, 1, 0), ScanInfo(<<0>>, 0, 0, 0, 0),
       ScanInfo(<<0>>, 0, 0, 1, 0)>>}

\* operations on one encoder in a behaviour
MaxTrialOps == 3

\* scan buffers one encoder may hold
MaxBuffers == 70

InitTrial ==
    /\ last_dc_val = [c \in Components |-> 0]
    /\ emitted = <<>>
    /\ hist = <<>>
    /\ dc_table = StdDcSymbols
    /\ ac_table = StdAcSymbols
    /\ call = NoCall
    /\ ret = NoRet
    /\ trial \in TrialEncoders
    /\ y_state = [i \in 1 .. trial.y_len |-> BlockState_default]
    /\ cb_state = [i \in 1 .. trial.cb_len |-> BlockState_default]
    /\ cr_state = [i \in 1 .. trial.cr_len |-> BlockState_default]
    /\ scan_buffers = <<>>
    /\ sizes = <<>>
    /\ ffi_calls = <<>>

\* no encode_all_scans call is running
TrialIdle == call.op = "none" \/ ret.done

push_buffer_replacing(buffers, buffer) == <<buffer>>

\* line 180: self.scan_buffers.push(buffer)
push_buffer(buffers, buffer) == Append(buffers, buffer)

\* line 138: encode_all_scans(scans) is entered; hist keeps the call and,
\* once it has returned, the sizes of the scans it encoded and, if it
\* returned Ok, the buffers get_scan_buffers() gives then
EncodeAllScans ==
    /\ TrialIdle
    /\ Len(hist) < MaxTrialOps
    /\ \E scans \in TrialScanLists :
          /\ Len(scan_buffers) + Len(scans) <= MaxBuffers
          /\ call' = [op |-> "encode_all_scans", scans |-> scans]
          /\ hist' = Append(hist, [op |-> "encode_all_scans", n |-> Len(scans),
                                   scans |-> scans, ok |-> FALSE,
                                   val |-> <<>>, buffers |-> <<>>])
    /\ sizes' = <<>>
    /\ ret' = NoRet
    /\ UNCHANGED <<last_dc_val, emitted, dc_table, ac_table,
                   trial, y_state, cb_state, cr_state, scan_buffers, ffi_calls>>

\* lines 140-143: one iteration of the loop, self.encode_scan(scan)? and
\* sizes.push(size); an error returns from encode_all_scans at once
EncodeScan ==
    /\ call.op = "encode_all_scans"
    /\ ~ret.done
    /\ Len(sizes) < Len(call.scans)
    /\ LET scan == call.scans[Len(sizes) + 1]
           r == encode_scan(trial, BlockStates(y_state, cb_state, cr_state), scan)
       IN  /\ y_state' = r.states.y
           /\ cb_state' = r.states.cb
           /\ cr_state' = r.states.cr
           /\ IF r.ok
              THEN /\ scan_buffers' = push_buffer(scan_buffers, r.buffer)
                   /\ sizes' = Append(sizes, r.size)
                   /\ ret' = ret
                   /\ hist' = hist
              ELSE /\ ret' = [done |-> TRUE, ok |-> FALSE]
                   /\ hist' = [hist EXCEPT ![Len(hist)].val = sizes]
                   /\ UNCHANGED <<scan_buffers, sizes>>
    /\ UNCHANGED <<last_dc_val, emitted, dc_table, ac_table, call, trial, ffi_calls>>

\* line 145: Ok(sizes)
EncodeAllScansReturn ==
    /\ call.op = "encode_all_scans"
    /\ ~ret.done
    /\ Len(sizes) = Len(call.scans)
    /\ ret' = [done |-> TRUE, ok |-> TRUE, val |-> sizes]
    /\ hist' = [hist EXCEPT ![Len(hist)].ok = TRUE, ![Len(hist)].val = sizes,
                            ![Len(hist)].buffers = scan_buffers]
    /\ UNCHANGED <<last_dc_val, emitted, dc_table, ac_table, call, trial_vars, ffi_calls>>

Reset_keeping_states ==
    /\ TrialIdle
    /\ Len(hist) < MaxTrialOps
    /\ scan_buffers' = <<>>
    /\ hist' = Append(hist, [op |-> "reset"])
    /\ call' = [op |-> "reset"]
    /\ ret' = [done |-> TRUE]
    /\ UNCHANGED <<last_dc_val, emitted, dc_table, ac_table, trial, y_state, cb_state,
                   cr_state, sizes, ffi_calls>>

\* lines 317-328: reset()
Reset ==
    /\ TrialIdle
    /\ Len(hist) < MaxTrialOps
    /\ y_state' = [i \in 1 .. Len(y_state) |-> BlockState_default]
    /\ cb_state' = [i \in 1 .. Len(cb_state) |-> BlockState_default]
    /\ cr_state' = [i \in 1 .. Len(cr_state) |-> BlockState_default]
    /\ scan_buffers' = <<>>
    /\ hist' = Append(hist, [op |-> "reset"])
    /\ call' = [op |-> "reset"]
    /\ ret' = [done |-> TRUE]
    /\ UNCHANGED <<last_dc_val, emitted, dc_table, ac_table, trial, sizes, ffi_calls>>

NextTrial == EncodeAllScans \/ EncodeScan \/ EncodeAllScansReturn \/ Reset

SpecTrial == InitTrial /\ [][NextTrial]_vars

----------------------------------------------------------------------------
(* Properties of the trial encoder *)

\* the i-th scan of the running (or last) encode_all_scans call; the call
\* has encoded the scans 1 .. Len(sizes)
EncodedScan(i) == call.scans[i]

\* scan a codes component comp_idx
HasComponent(a, comp_idx) ==
    \E i \in 1 .. a.comps_in_scan : a.component_index[i] = comp_idx

\* the candidate list is being driven through the encoder
DrivingCandidates == call.op = "encode_all_scans" /\ call.scans = CandidateScans

\* C12 as stated: every encoded candidate scan with Ah > 0 is preceded by a
\* scan of the same component whose spectral range contains Ss..Se and whose
\* Al equals this scan's Ah.
C12_RefinesPriorScanAtAh ==
    DrivingCandidates =>
        \A i \in 1 .. Len(sizes) :
            EncodedScan(i).ah > 0 =>
                \E j \in 1 .. i - 1 :
                    /\ HasComponent(EncodedScan(j), EncodedScan(i).component_index[1])
                    /\ EncodedScan(j).ss <= EncodedScan(i).ss
                    /\ EncodedScan(i).se <= EncodedScan(j).se
                    /\ EncodedScan(j).al = EncodedScan(i).ah

\* an earlier AC scan of the component of scan i
PriorAcScan(j, i) ==
    /\ j < i
    /\ EncodedScan(j).ss > 0
    /\ HasComponent(EncodedScan(j), EncodedScan(i).component_index[1])

\* C12, amended: every encoded candidate scan with Ah > 0 has Ah = Al + 1 and
\* is preceded by first scans (Ah = 0) of the same component at this scan's
\* own Al whose spectral ranges together cover Ss..Se; no scan of these
\* coefficients at Al = Ah precedes it (the scans at Al = Ah follow it).
C12_RefinesPriorScansAtAl ==
    DrivingCandidates =>
        \A i \in 1 .. Len(sizes) :
            EncodedScan(i).ah > 0 =>
                /\ EncodedScan(i).ah = EncodedScan(i).al + 1
                /\ LET firsts == {j \in 1 .. i - 1 :
                                      /\ PriorAcScan(j, i)
                                      /\ EncodedScan(j).ah = 0
                                      /\ EncodedScan(j).al = EncodedScan(i).al}
                   IN  \A k \in EncodedScan(i).ss .. EncodedScan(i).se :
                          \E j \in firsts :
                              EncodedScan(j).ss <= k /\ k <= EncodedScan(j).se
                /\ \A j \in 1 .. i - 1 :
                      PriorAcScan(j, i) => EncodedScan(j).al # EncodedScan(i).ah

\* the fourth candidate, the refinement of luma 1..63 from Ah = 1 to Al = 0,
\* has been encoded after the luma scans 1..8 and 9..63 at Al = 0
C12_Witness ==
    /\ DrivingCandidates
    /\ Len(sizes) >= 4
    /\ EncodedScan(4) = ScanInfo(<<0>>, 1, 63, 1, 0)
    /\ EncodedScan(2) = ScanInfo(<<0>>, 1, 8, 0, 0)
    /\ EncodedScan(3) = ScanInfo(<<0>>, 9, 63, 0, 0)
    /\ Len(scan_buffers) >= 4
    /\ scan_buffers[Len(scan_buffers) - Len(sizes) + 4][1].op = "encode_ac_refine"

\* the running (or last) encode_all_scans call was made on an encoder that
\* was freshly constructed or reset
FreshAtEntry ==
    /\ call.op = "encode_all_scans"
    /\ Len(hist) = 1 \/ hist[Len(hist) - 1].op = "reset"

\* the calls in a buffer that code a block
BlockCalls(buffer) ==
    {k \in 1 .. Len(buffer) : buffer[k].op \notin {"finish_scan", "flush"}}

\* the buffer holds the output of this scan and of no other
BufferOfScan(buffer, scan) ==
    /\ Len(buffer) >= 2
    /\ buffer[Len(buffer)].op = "flush"
    /\ buffer[Len(buffer) - 1] = finish_scan(scan)[1]
    /\ \A k \in BlockCalls(buffer) :
          /\ buffer[k].ss = scan.ss /\ buffer[k].se = scan.se
          /\ buffer[k].ah = scan.ah /\ buffer[k].al = scan.al
          /\ HasComponent(scan, buffer[k].comp)

\* C13: encode_all_scans on a fresh or reset encoder encodes the scans in
\* the given order: while it runs, the i-th stored buffer is that of the
\* i-th scan and the i-th size is its byte length; when it returns, it
\* returns one size per input scan, in input order.
C13_SizesInOrder ==
    FreshAtEntry =>
        /\ Len(scan_buffers) = Len(sizes)
        /\ Len(sizes) <= Len(call.scans)
        /\ \A i \in 1 .. Len(sizes) :
              /\ BufferOfScan(scan_buffers[i], call.scans[i])
              /\ sizes[i] = Len(scan_buffers[i])
        /\ (ret.done /\ ret.ok) =>
              /\ ret.val = sizes
              /\ Len(ret.val) = Len(call.scans)

\* the 64 candidates were encoded after a reset and their sizes returned
C13_Witness ==
    /\ FreshAtEntry
    /\ Len(hist) = 3
    /\ hist[2].op = "reset"
    /\ call.scans = CandidateScans
    /\ ret.done /\ ret.ok
    /\ Len(ret.val) = 64
    /\ ret.val[1] > 2
    /\ ret.val[1] = Len(scan_buffers[1])

\* the block states of a component
ComponentState(comp_idx) ==
    CASE comp_idx = 0 -> y_state
      [] comp_idx = 1 -> cb_state
      [] comp_idx = 2 -> cr_state

\* the block states of a component after the step
ComponentStateNext(comp_idx) ==
    CASE comp_idx = 0 -> y_state'
      [] comp_idx = 1 -> cb_state'
      [] comp_idx = 2 -> cr_state'

\* the scan the running encode_all_scans call encodes next
CurrentScan == call.scans[Len(sizes) + 1]

\* the step is an encode_scan call that returns Ok
ScanEncoded ==
    /\ call.op = "encode_all_scans"
    /\ call' = call
    /\ Len(sizes) < Len(call.scans)
    /\ Len(sizes') = Len(sizes) + 1

\* C14: an AC first scan (Ss > 0, Ah = 0) of component c over Ss..Se at
\* point transform Al leaves every visited block of c with the state of the
\* positions Ss..Se marked coded with first_al = Al, and the positions
\* outside Ss..Se with the state they had.
C14_AcFirstScanMarksCoefficients ==
    [][(ScanEncoded /\ CurrentScan.ss > 0 /\ CurrentScan.ah = 0) =>
          \A k \in 1 .. Len(ac_visits(trial, CurrentScan)) :
              LET comp_idx == ac_visits(trial, CurrentScan)[k][1]
                  b == ac_visits(trial, CurrentScan)[k][2] + 1
              IN  \A pos \in 1 .. DCTSIZE2 - 1 :
                      ComponentStateNext(comp_idx)[b].ac_state[pos] =
                          IF CurrentScan.ss <= pos /\ pos <= CurrentScan.se
                          THEN [first_al |-> CurrentScan.al, coded |-> TRUE]
                          ELSE ComponentState(comp_idx)[b].ac_state[pos]]_vars

\* the step is a reset() call
ResetStep == hist' = Append(hist, [op |-> "reset"])

\* the step runs encode_scan (to Ok or to an error) on a DC first scan that
\* visits block b (counted from 1) of the component
DcFirstScanVisits(comp_idx, b) ==
    /\ call.op = "encode_all_scans"
    /\ call' = call
    /\ ~ret.done
    /\ Len(sizes) < Len(call.scans)
    /\ Len(sizes') = Len(sizes) + 1 \/ ret'.done
    /\ CurrentScan.ss = 0 /\ CurrentScan.se = 0 /\ CurrentScan.ah = 0
    /\ \E k \in 1 .. Len(dc_visits(trial, CurrentScan)) :
          dc_visits(trial, CurrentScan)[k] = <<comp_idx, b - 1>>

\* every block of the model, as <<comp_idx, b>>
AllBlocks ==
    {<<comp_idx, b>> : comp_idx \in 0 .. 2, b \in 1 .. 4} \cap
    {<<comp_idx, b>> \in (0 .. 2) \X (1 .. 4) : b <= Len(ComponentState(comp_idx))}

\* a DC first scan that returns Ok leaves every block it visits marked
\* DC-coded with dc_first_al = Al
DcFirstScanMarks ==
    (ScanEncoded /\ CurrentScan.ss = 0 /\ CurrentScan.se = 0 /\ CurrentScan.ah = 0) =>
        \A k \in 1 .. Len(dc_visits(trial, CurrentScan)) :
            LET comp_idx == dc_visits(trial, CurrentScan)[k][1]
                b == dc_visits(trial, CurrentScan)[k][2] + 1
            IN  /\ ComponentStateNext(comp_idx)[b].dc_coded
                /\ ComponentStateNext(comp_idx)[b].dc_first_al = CurrentScan.al

\* reset() leaves every block state at its default and no scan buffer
ResetClears ==
    ResetStep =>
        /\ \A blk \in AllBlocks : ComponentStateNext(blk[1])[blk[2]] = BlockState_default
        /\ Len(y_state') = Len(y_state)
        /\ Len(cb_state') = Len(cb_state)
        /\ Len(cr_state') = Len(cr_state)
        /\ scan_buffers' = <<>>

\* C15 as stated: a DC first scan at Al marks every visited block DC-coded
\* with dc_first_al = Al; every later step other than reset() keeps the
\* marking of a marked block as it is; reset() restores the defaults and
\* empties the scan buffers.
C15_DcMarkingKept ==
    [][/\ DcFirstScanMarks
       /\ ~ResetStep =>
             \A blk \in AllBlocks :
                 ComponentState(blk[1])[blk[2]].dc_coded =>
                     /\ ComponentStateNext(blk[1])[blk[2]].dc_coded
                     /\ ComponentStateNext(blk[1])[blk[2]].dc_first_al =
                            ComponentState(blk[1])[blk[2]].dc_first_al
       /\ ResetClears]_vars

\* C15, amended: a DC first scan at Al marks every visited block DC-coded
\* with dc_first_al = Al; until reset() a marked block stays DC-coded, and
\* its dc_first_al is changed only by a later DC first scan that visits the
\* block, which replaces it by its own Al; reset() restores the defaults and
\* empties the scan buffers.
C15_DcMarkingKeptUntilRemarked ==
    [][/\ DcFirstScanMarks
       /\ ~ResetStep =>
             \A blk \in AllBlocks :
                 ComponentState(blk[1])[blk[2]].dc_coded =>
                     /\ ComponentStateNext(blk[1])[blk[2]].dc_coded
                     /\ \/ ComponentStateNext(blk[1])[blk[2]].dc_first_al =
                               ComponentState(blk[1])[blk[2]].dc_first_al
                        \/ /\ DcFirstScanVisits(blk[1], blk[2])
                           /\ ComponentStateNext(blk[1])[blk[2]].dc_first_al =
                                  CurrentScan.al
       /\ ResetClears]_vars

\* the DC first scan at Al = 1 marked the luma and Cb blocks; the AC scan
\* and the DC refinement after it kept the marks, and the DC first scan of
\* Cb at Al = 0 replaced that of the Cb block
C15_Witness ==
    /\ call.op = "encode_all_scans"
    /\ Len(call.scans) = 6
    /\ call.scans[1] = ScanInfo(<<0, 1, 2>>, 0, 0, 0, 1)
    /\ call.scans[4] = ScanInfo(<<1>>, 0, 0, 0, 0)
    /\ Len(sizes) >= 4
    /\ y_state[1].dc_coded /\ y_state[1].dc_first_al = 1
    /\ cr_state[1].dc_coded /\ cr_state[1].dc_first_al = 1
    /\ cb_state[1].dc_coded /\ cb_state[1].dc_first_al = 0

----------------------------------------------------------------------------
(* entropy.rs: encode_block with Huffman tables that lack a symbol and with *)
(* coefficients beyond the documented range                                *)

\* BitWriter::put_bits(code, size): writing a code of length 0 is the
\* emission of a symbol that has no code; a build with debug assertions
\* stops there, a release build writes nothing and returns Ok
put_bits_rejects(size, debug_assertions) == size = 0 /\ debug_assertions

\* the index of the first put_bits call that is rejected, 0 if none is
first_rejected(out, debug_assertions) ==
    LET bad == {i \in 1 .. Len(out) : put_bits_rejects(out[i].n, debug_assertions)}
    IN  IF bad = {} THEN 0 ELSE CHOOSE i \in bad : \A j \in bad : i <= j

\* lines 88-102 with the outcome of the writer: the predictor is stored
\* before anything is written (line 116); the calls made on the writer end
\* with the first one it rejects
encode_block_result(last, block, component, dctbl, actbl, debug_assertions) ==
    LET r == encode_block(last, block, component, dctbl, actbl)
        stop == first_rejected(r.out, debug_assertions)
    IN  [last_dc_val |-> r.last_dc_val,
         out |-> IF stop = 0 THEN r.out ELSE SubSeq(r.out, 1, stop),
         result |-> IF stop = 0 THEN "Ok" ELSE "panic"]

\* Tables: the standard ones, the standard ones without one symbol, and
\* tables with a code for every symbol
DcTables == {StdDcSymbols, StdDcSymbols \ {3}, 0 .. 16}

AcTables ==
    {StdAcSymbols, StdAcSymbols \ {EOB}, StdAcSymbols \ {ZRL},
     StdAcSymbols \ {3}, 0 .. 255}

\* DC values and AC layouts, within and beyond the 8-bit range: 2048 is a
\* DC difference of 12 bits; 1024, -2048 and 16384 are AC values of 11, 12
\* and 15 bits
WideDcValues == {0, 7, -1024, 2048}

WideLayouts ==
    {<<>>, <<<<1, 5>>>>, <<<<17, 1>>>>, <<<<1, -2048>>>>,
     <<<<18, 1024>>, <<63, -2>>>>, <<<<63, 16384>>>>}

InitTables ==
    /\ last_dc_val = [c \in Components |-> 0]
    /\ emitted = <<>>
    /\ hist = <<>>
    /\ dc_table \in DcTables
    /\ ac_table \in AcTables
    /\ call \in {[op |-> "encode_block", debug_assertions |-> d] : d \in BOOLEAN}
    /\ ret = NoRet
    /\ NoTrialEncoder

\* lines 88-102: encoder.encode_block(&block, component, dc_table, ac_table)
\* on a new encoder, with the tables and the build of the run
EncodeBlockWithTables ==
    /\ call.op = "encode_block"
    /\ ~ret.done
    /\ \E dc \in WideDcValues, layout \in WideLayouts :
          LET r == encode_block_result(last_dc_val, MakeBlock(dc, layout), 0,
                                       dc_table, ac_table, call.debug_assertions)
          IN  /\ last_dc_val' = r.last_dc_val
              /\ emitted' = r.out
              /\ ret' = [done |-> TRUE, result |-> r.result]
              /\ hist' = <<[op |-> "encode", comp |-> 0, dc |-> dc,
                            ac |-> layout, pred |-> 0]>>
    /\ UNCHANGED <<dc_table, ac_table, call, trial_vars, ffi_calls>>

NextTables == EncodeBlockWithTables

SpecTables == InitTables /\ [][NextTables]_vars

\* the put_bits calls of the block that wrote bits
WrittenBits == {i \in 1 .. Len(emitted) : emitted[i].n > 0}

\* the block of the call needs a symbol that has code length 0
NeedsSymbolWithoutCode ==
    LET blk == MakeBlock(hist[1].dc, hist[1].ac)
        ac == encode_ac(blk, ac_table)
    IN  \/ get_code_size(dc_table, jpeg_nbits(dc_diff(hist[1].dc, hist[1].pred))) = 0
        \/ \E i \in 1 .. Len(ac) : ac[i].k = "huff" /\ ac[i].n = 0

\* C16: every symbol encode_block emits has a positive code length, and if
\* the DC category or an AC symbol the block needs (ZRL and EOB included)
\* has code length 0, encode_block fails and writes neither a code nor
\* magnitude bits of the block.
C16_SymbolsHaveCodes ==
    (call.op = "encode_block" /\ ret.done) =>
        /\ \A i \in 1 .. Len(emitted) : emitted[i].k = "huff" => emitted[i].n > 0
        /\ NeedsSymbolWithoutCode => (ret.result # "Ok" /\ WrittenBits = {})

\* the block of the call has a DC difference of more than 11 bits or an AC
\* coefficient of more than MAX_COEF_BITS bits
OutOfRangeBlock ==
    \/ jpeg_nbits(dc_diff(hist[1].dc, hist[1].pred)) > MAX_COEF_BITS + 1
    \/ \E i \in 1 .. Len(hist[1].ac) : jpeg_nbits(hist[1].ac[i][2]) > MAX_COEF_BITS

\* C17: encode_block returns InternalError for a block with an AC
\* coefficient of more than 10 bits or a DC difference of more than 11, and
\* emits no symbol whose size nibble exceeds those bounds or whose run
\* nibble is outside 0..15.
C17_OutOfRangeReported ==
    (call.op = "encode_block" /\ ret.done) =>
        /\ OutOfRangeBlock => ret.result = "InternalError"
        /\ \A i \in 1 .. Len(emitted) :
              emitted[i].k = "huff" =>
                  IF emitted[i].tbl = "dc"
                  THEN emitted[i].sym <= MAX_COEF_BITS + 1
                  ELSE /\ emitted[i].sym % 16 <= MAX_COEF_BITS
                       /\ emitted[i].sym \div 16 \in 0 .. 15

----------------------------------------------------------------------------
(* compat.rs: CMozjpeg, encoding through the C library *)

\* error.rs lines 19-25
BufferSizeMismatch(expected, actual) ==
    [kind |-> "BufferSizeMismatch", expected |-> expected, actual |-> actual]

\* error.rs lines 52-53
UnsupportedFeature(what) == [kind |-> "UnsupportedFeature", what |-> what]

\* the C library leaves through its error manager (jpeg_std_error): the
\* call does not return a JPEG
CLibraryError(what) == [kind |-> "CLibraryError", what |-> what]

\* Ok(result): the bytes of the memory destination
OkJpeg == [kind |-> "Ok"]

expected_rgb_size_one_channel(width, height) == width * height

\* line 261: (width as usize) * (height as usize) * 3
expected_rgb_size(width, height) == width * height * 3

\* line 353: (width as usize) * (height as usize)
expected_gray_size(width, height) == width * height

\* lines 506-516: (h_factor, v_factor) of a subsampling with chroma
subsampling_factors(subsampling) ==
    CASE subsampling = "S444" -> <<1, 1>>
      [] subsampling = "S422" -> <<2, 1>>
      [] subsampling = "S420" -> <<2, 2>>
      [] subsampling = "S440" -> <<1, 2>>

chroma_plane_size_rounded_down(width, height, h_factor, v_factor) ==
    (width \div h_factor) * (height \div v_factor)

\* lines 519-521: chroma_width * chroma_height
chroma_plane_size(width, height, h_factor, v_factor) ==
    ((width + h_factor - 1) \div h_factor) * ((height + v_factor - 1) \div v_factor)

\* one step of an encode path on the C compressor: a call of the C library
\* with its integer arguments, or an assignment to a field of cinfo; a raw
\* data call also carries the row pointers of its three planes
Ffi(fn, args) == [fn |-> fn, args |-> args, rows |-> <<>>]

\* `if flag { 1 } else { 0 }`
AsInt(flag) == IF flag THEN 1 ELSE 0

\* Option::None and Some(data) of a byte vector, known by its length
None == [some |-> FALSE]

Some(len) == [some |-> TRUE, len |-> len]

\* lines 269-281, 362-374, 542-554: the compressor is created over a
\* memory destination
create_compress == <<Ffi("jpeg_CreateCompress", <<>>), Ffi("jpeg_mem_dest", <<>>)>>

progression_calls_script_first(self) ==
    (IF self.progressive
     THEN <<Ffi("jpeg_simple_progression", <<>>)>>
     ELSE <<Ffi("cinfo.num_scans", <<0>>), Ffi("cinfo.scan_info = null", <<>>)>>)
    \o <<Ffi("jpeg_c_set_bool_param(JBOOLEAN_OPTIMIZE_SCANS)", <<AsInt(self.optimize_scans)>>)>>

\* lines 220-234 (and 410-424, 607-618): optimize_scans, then the scan
\* script
progression_calls(self) ==
    <<Ffi("jpeg_c_set_bool_param(JBOOLEAN_OPTIMIZE_SCANS)", <<AsInt(self.optimize_scans)>>)>>
    \o (IF self.progressive
        THEN <<Ffi("jpeg_simple_progression", <<>>)>>
        ELSE <<Ffi("cinfo.num_scans", <<0>>), Ffi("cinfo.scan_info = null", <<>>)>>)

\* lines 192-215 (and 390-408, 587-605): Huffman optimization, trellis,
\* deringing, smoothing
trellis_calls(self) ==
    <<Ffi("cinfo.optimize_coding", <<AsInt(self.optimize_huffman)>>),
      Ffi("jpeg_c_set_bool_param(JBOOLEAN_TRELLIS_QUANT)", <<AsInt(self.trellis.enabled)>>),
      Ffi("jpeg_c_set_bool_param(JBOOLEAN_TRELLIS_QUANT_DC)",
          <<AsInt(self.trellis.dc_enabled)>>),
      Ffi("jpeg_c_set_bool_param(JBOOLEAN_OVERSHOOT_DERINGING)",
          <<AsInt(self.overshoot_deringing)>>),
      Ffi("cinfo.smoothing_factor", <<self.smoothing>>)>>

\* lines 150-153, 377-380, 558-561: the image the compressor is told of
image_fields(width, height, input_components, in_color_space) ==
    <<Ffi("cinfo.image_width", <<width>>), Ffi("cinfo.image_height", <<height>>),
      Ffi("cinfo.input_components", <<input_components>>),
      Ffi(in_color_space, <<>>)>>

\* lines 183-190, 576-581: the sampling factors of the three components
samp_factors(h_samp, v_samp) ==
    <<Ffi("cinfo.comp_info.samp_factors", <<h_samp, v_samp, 1, 1, 1, 1>>)>>

\* lines 134-248: configure_cinfo, the steps it makes unless it refuses
configure_cinfo(self, width, height) ==
    IF self.has_custom_qtables
    THEN [ok |-> FALSE, calls |-> <<>>]
    ELSE [ok |-> TRUE,
          calls |->
              image_fields(width, height, 3, "cinfo.in_color_space = JCS_RGB")
              \o <<Ffi("jpeg_set_defaults", <<>>),
                   Ffi("jpeg_c_set_int_param(JINT_BASE_QUANT_TBL_IDX)",
                       <<self.quant_table_idx>>),
                   Ffi("jpeg_set_quality", <<self.quality, AsInt(self.force_baseline)>>)>>
              \o (IF self.subsampling = "Gray"
                  THEN <<Ffi("cinfo.input_components", <<1>>),
                         Ffi("cinfo.in_color_space = JCS_GRAYSCALE", <<>>)>>
                  ELSE samp_factors(subsampling_factors(self.subsampling)[1],
                                    subsampling_factors(self.subsampling)[2]))
              \o trellis_calls(self)
              \o <<Ffi("cinfo.restart_interval", <<self.restart_interval>>)>>
              \o progression_calls(self)]

\* line 694
ICC_OVERHEAD == 14

\* line 695
MAX_DATA_PER_MARKER == 65533 - ICC_OVERHEAD

write_icc_profile_zero_based(icc_len) ==
    LET chunks == CeilDiv(icc_len, MAX_DATA_PER_MARKER)
        num_markers == ToU8(chunks)
    IN  [i \in 1 .. chunks |->
            LET chunk_len == Min(MAX_DATA_PER_MARKER, icc_len - (i - 1) * MAX_DATA_PER_MARKER)
                seq_no == ToU8(i - 1)
            IN  Ffi("jpeg_write_marker",
                    <<226, ICC_OVERHEAD + chunk_len, seq_no, num_markers,
                      (i - 1) * MAX_DATA_PER_MARKER, chunk_len>>)]

\* lines 691-711: write_icc_profile.  icc.chunks(MAX_DATA_PER_MARKER) are
\* the consecutive slices of that length (the last one shorter); a marker is
\* known by its type (APP2 = 0xE2), the length of its data, the seq_no and
\* num_markers bytes of its header, and the offset and length of the slice
\* of the profile it carries.  seq_no and num_markers are `as u8`.
write_icc_profile(icc_len) ==
    LET chunks == CeilDiv(icc_len, MAX_DATA_PER_MARKER)
        num_markers == ToU8(chunks)
    IN  [i \in 1 .. chunks |->
            LET chunk_len == Min(MAX_DATA_PER_MARKER, icc_len - (i - 1) * MAX_DATA_PER_MARKER)
                seq_no == ToU8(i)
            IN  Ffi("jpeg_write_marker",
                    <<226, ICC_OVERHEAD + chunk_len, seq_no, num_markers,
                      (i - 1) * MAX_DATA_PER_MARKER, chunk_len>>)]

\* lines 300-318 and 621-635: EXIF (APP1 = 0xE1), ICC chunks, custom markers
marker_calls(self) ==
    (IF self.exif_data.some
     THEN <<Ffi("jpeg_write_marker", <<225, self.exif_data.len>>)>> ELSE <<>>)
    \o (IF self.icc_profile.some THEN write_icc_profile(self.icc_profile.len) ELSE <<>>)
    \o [i \in 1 .. Len(self.custom_markers) |->
           Ffi("jpeg_write_marker", <<self.custom_markers[i][1], self.custom_markers[i][2]>>)]

\* lines 330-342: the output is copied and the compressor destroyed
finish_calls == <<Ffi("jpeg_finish_compress", <<>>), Ffi("jpeg_destroy_compress", <<>>)>>

\* jpeg_start_compress on an image without pixels ends in the error manager
\* of the C library (JERR_EMPTY_IMAGE)
start_compress(width, height) ==
    IF width = 0 \/ height = 0
    THEN [ok |-> FALSE, calls |-> <<Ffi("jpeg_start_compress", <<>>)>>]
    ELSE [ok |-> TRUE, calls |-> <<Ffi("jpeg_start_compress", <<>>)>>]

\* lines 320-328 and 428-435: one scanline per call, the row at
\* cinfo.next_scanline, until next_scanline reaches image_height
write_scanlines(height) ==
    [i \in 1 .. height |-> Ffi("jpeg_write_scanlines", <<i - 1>>)]

\* lines 648-661: the rows the pointers of one batch refer to, y_rows[i] and
\* cb_rows[i] = cr_rows[i], for i in 0..mcu_rows
raw_data_rows(row, height, chroma_height, v_factor, mcu_rows) ==
    [y |-> [i \in 1 .. mcu_rows |-> Min(row + (i - 1), height - 1)],
     c |-> [i \in 1 .. mcu_rows |->
               Min(row \div v_factor + (i - 1) \div v_factor, chroma_height - 1)]]

\* lines 638-670: the batches of mcu_rows = max_v_samp_factor * DCTSIZE luma
\* rows handed to jpeg_write_raw_data, while row < height
write_raw_data(height, chroma_height, v_factor) ==
    LET mcu_rows == v_factor * DCTSIZE
    IN  [b \in 1 .. CeilDiv(height, mcu_rows) |->
            LET r == raw_data_rows((b - 1) * mcu_rows, height, chroma_height,
                                   v_factor, mcu_rows)
            IN  [fn |-> "jpeg_write_raw_data", args |-> <<mcu_rows>>,
                 rows |-> <<r.y, r.c, r.c>>]]

\* lines 257-346: encode_rgb
encode_rgb(self, rgb_len, width, height) ==
    IF rgb_len # expected_rgb_size(width, height)
    THEN [result |-> BufferSizeMismatch(expected_rgb_size(width, height), rgb_len),
          calls |-> <<>>]
    ELSE LET cfg == configure_cinfo(self, width, height)
             start == start_compress(width, height)
         IN  IF ~cfg.ok
             THEN [result |-> UnsupportedFeature("custom quant tables not supported"),
                   calls |-> create_compress]
             ELSE IF ~start.ok
             THEN [result |-> CLibraryError("empty image"),
                   calls |-> create_compress \o cfg.calls \o start.calls]
             ELSE [result |-> OkJpeg,
                   calls |-> create_compress \o cfg.calls \o start.calls
                             \o marker_calls(self)
                             \o write_scanlines(height)
                             \o finish_calls]

\* lines 349-453: encode_grayscale
encode_grayscale(self, gray_len, width, height) ==
    IF gray_len # expected_gray_size(width, height)
    THEN [result |-> BufferSizeMismatch(expected_gray_size(width, height), gray_len),
          calls |-> <<>>]
    ELSE LET start == start_compress(width, height)
             settings ==
                 image_fields(width, height, 1, "cinfo.in_color_space = JCS_GRAYSCALE")
                 \o <<Ffi("jpeg_set_defaults", <<>>),
                      Ffi("jpeg_set_quality", <<self.quality, AsInt(self.force_baseline)>>)>>
                 \o trellis_calls(self) \o progression_calls(self)
         IN  IF ~start.ok
             THEN [result |-> CLibraryError("empty image"),
                   calls |-> create_compress \o settings \o start.calls]
             ELSE [result |-> OkJpeg,
                   calls |-> create_compress \o settings \o start.calls
                             \o write_scanlines(height)
                             \o finish_calls]

\* lines 494-688: encode_ycbcr_planar
encode_ycbcr_planar(self, y_len, cb_len, cr_len, width, height) ==
    IF self.subsampling = "Gray"
    THEN [result |-> UnsupportedFeature("use encode_grayscale for grayscale images"),
          calls |-> <<>>]
    ELSE LET h_factor == subsampling_factors(self.subsampling)[1]
             v_factor == subsampling_factors(self.subsampling)[2]
             y_size == width * height
             chroma_height == CeilDiv(height, v_factor)
             chroma_size == chroma_plane_size(width, height, h_factor, v_factor)
             start == start_compress(width, height)
             settings ==
                 image_fields(width, height, 3, "cinfo.in_color_space = JCS_YCbCr")
                 \o <<Ffi("jpeg_set_defaults", <<>>),
                      Ffi("jpeg_c_set_int_param(JINT_BASE_QUANT_TBL_IDX)",
                          <<self.quant_table_idx>>),
                      Ffi("jpeg_set_quality", <<self.quality, AsInt(self.force_baseline)>>)>>
                 \o samp_factors(h_factor, v_factor)
                 \o <<Ffi("cinfo.raw_data_in", <<1>>)>>
                 \o trellis_calls(self) \o progression_calls(self)
         IN  IF y_len # y_size
             THEN [result |-> BufferSizeMismatch(y_size, y_len), calls |-> <<>>]
             ELSE IF cb_len # chroma_size
             THEN [result |-> BufferSizeMismatch(chroma_size, cb_len), calls |-> <<>>]
             ELSE IF cr_len # chroma_size
             THEN [result |-> BufferSizeMismatch(chroma_size, cr_len), calls |-> <<>>]
             ELSE IF ~start.ok
             THEN [result |-> CLibraryError("empty image"),
                   calls |-> create_compress \o settings \o start.calls]
             ELSE [result |-> OkJpeg,
                   calls |-> create_compress \o settings \o start.calls
                             \o marker_calls(self)
                             \o write_raw_data(height, chroma_height, v_factor)
                             \o finish_calls]

\* the subsampling modes of types::Subsampling
Subsamplings == {"S444", "S422", "S420", "S440", "Gray"}

\* TrellisConfig
TrellisConfig(enabled, dc_enabled) == [enabled |-> enabled, dc_enabled |-> dc_enabled]

\* a progressive encoder without markers
PlainCMozjpeg(subsampling) ==
    [quality |-> 85, force_baseline |-> FALSE, subsampling |-> subsampling,
     progressive |-> TRUE, optimize_huffman |-> TRUE, optimize_scans |-> TRUE,
     trellis |-> TrellisConfig(TRUE, TRUE), overshoot_deringing |-> TRUE,
     smoothing |-> 0, restart_interval |-> 0, quant_table_idx |-> 3,
     has_custom_qtables |-> FALSE, exif_data |-> None, icc_profile |-> None,
     custom_markers |-> <<>>]

\* a baseline encoder with a restart interval, smoothing, an EXIF block, an
\* ICC profile of icc_len bytes and a COM marker
MarkedCMozjpeg(subsampling, icc_len) ==
    [quality |-> 60, force_baseline |-> TRUE, subsampling |-> subsampling,
     progressive |-> FALSE, optimize_huffman |-> FALSE, optimize_scans |-> FALSE,
     trellis |-> TrellisConfig(TRUE, FALSE), overshoot_deringing |-> FALSE,
     smoothing |-> 10, restart_interval |-> 16, quant_table_idx |-> 2,
     has_custom_qtables |-> FALSE, exif_data |-> Some(30), icc_profile |-> Some(icc_len),
     custom_markers |-> <<<<254, 5>>>>]

\* lengths of ICC profiles: empty, one chunk, the largest single chunk and
\* one byte more, several chunks, and 255, 256 and 300 chunks
IccLens ==
    {0, 5, MAX_DATA_PER_MARKER, MAX_DATA_PER_MARKER + 1, 3 * MAX_DATA_PER_MARKER + 7,
     255 * MAX_DATA_PER_MARKER, 255 * MAX_DATA_PER_MARKER + 1, 300 * MAX_DATA_PER_MARKER}

\* The CMozjpeg values of the model: every subsampling with progressive
\* output and no markers, baseline and progressive encoders with markers,
\* and one with custom quantization tables.
CMozjpegs ==
    {PlainCMozjpeg(s) : s \in Subsamplings}
    \cup {MarkedCMozjpeg("S420", 5), MarkedCMozjpeg("Gray", 5),
          [MarkedCMozjpeg("S440", 5) EXCEPT !.progressive = TRUE]}
    \cup {[MarkedCMozjpeg("S420", 5) EXCEPT !.has_custom_qtables = TRUE]}

\* encoders with ICC profiles of every length of IccLens
IccCMozjpegs == {MarkedCMozjpeg("S444", n) : n \in IccLens}

\* largest width and height of an image
MaxDim == 3

\* buffer lengths at and next to the sizes in e, and the empty buffer
LensNear(e) == {0} \cup {n \in UNION {{x - 1, x, x + 1} : x \in e} : n >= 0}

\* the lengths a plane of a planar call may have: around the luma size and
\* around the chroma size rounded up and rounded down
PlaneLens(self, width, height) ==
    IF self.subsampling = "Gray" THEN LensNear({width * height})
    ELSE LET f == subsampling_factors(self.subsampling)
         IN  LensNear({width * height,
                       chroma_plane_size(width, height, f[1], f[2]),
                       (width \div f[1]) * (height \div f[2])})

\* heights of planar images of two and more batches of rows
TallHeights == {9, 16, 17, 33}

\* an encoder and the dimensions of an image
Images == CMozjpegs \X (0 .. MaxDim) \X (0 .. MaxDim)

\* the calls of the model: buffers of the sizes the code computes and of
\* lengths next to them, planar calls on tall images with planes of the
\* sizes the code computes, and calls of the encoders with ICC profiles on
\* a 2x1 image
CompatCalls ==
    UNION {{[op |-> "encode_rgb", self |-> i[1], width |-> i[2], height |-> i[3],
             rgb |-> n] :
                n \in LensNear({i[2] * i[3] * 3, i[2] * i[3]})} : i \in Images}
    \cup UNION {{[op |-> "encode_grayscale", self |-> i[1], width |-> i[2],
                  height |-> i[3], gray |-> n] :
                n \in LensNear({i[2] * i[3]})} : i \in Images}
    \cup UNION {{[op |-> "encode_ycbcr_planar", self |-> i[1], width |-> i[2],
                  height |-> i[3], y |-> ylen, cb |-> cblen, cr |-> crlen] :
                ylen \in PlaneLens(i[1], i[2], i[3]),
                cblen \in PlaneLens(i[1], i[2], i[3]),
                crlen \in PlaneLens(i[1], i[2], i[3])} : i \in Images}
    \cup {[op |-> "encode_ycbcr_planar", self |-> PlainCMozjpeg(s), width |-> w,
           height |-> h, y |-> w * h,
           cb |-> chroma_plane_size(w, h, subsampling_factors(s)[1],
                                    subsampling_factors(s)[2]),
           cr |-> chroma_plane_size(w, h, subsampling_factors(s)[1],
                                    subsampling_factors(s)[2])] :
                s \in Subsamplings \ {"Gray"}, w \in {1, 2}, h \in TallHeights}
    \cup UNION {{[op |-> "encode_rgb", self |-> e, width |-> 2, height |-> 1, rgb |-> 6],
                  [op |-> "encode_grayscale", self |-> e, width |-> 2, height |-> 1,
                   gray |-> 2],
                  [op |-> "encode_ycbcr_planar", self |-> e, width |-> 2, height |-> 1,
                   y |-> 2, cb |-> 2, cr |-> 2]} : e \in IccCMozjpegs}

InitCompat ==
    /\ IdleEncoder
    /\ call \in CompatCalls
    /\ ret = NoRet

\* the outcome of an encode call: its result and the C calls it made
Returned(r) ==
    /\ ret' = [done |-> TRUE, val |-> r.result]
    /\ ffi_calls' = r.calls
    /\ UNCHANGED <<last_dc_val, emitted, hist, dc_table, ac_table, call, trial_vars>>

\* c_encoder.encode_rgb(&rgb, width, height)
EncodeRgb ==
    /\ call.op = "encode_rgb"
    /\ ~ret.done
    /\ Returned(encode_rgb(call.self, call.rgb, call.width, call.height))

\* c_encoder.encode_grayscale(&gray, width, height)
EncodeGrayscale ==
    /\ call.op = "encode_grayscale"
    /\ ~ret.done
    /\ Returned(encode_grayscale(call.self, call.gray, call.width, call.height))

\* c_encoder.encode_ycbcr_planar(&y, &cb, &cr, width, height)
EncodeYcbcrPlanar ==
    /\ call.op = "encode_ycbcr_planar"
    /\ ~ret.done
    /\ Returned(encode_ycbcr_planar(call.self, call.y, call.cb, call.cr,
                                    call.width, call.height))

NextCompat == EncodeRgb \/ EncodeGrayscale \/ EncodeYcbcrPlanar

SpecCompat == InitCompat /\ [][NextCompat]_vars

----------------------------------------------------------------------------
(* Properties of the CMozjpeg entry points *)

\* C18: encode_rgb returns BufferSizeMismatch{expected: width*height*3,
\* actual: rgb.len()} whenever rgb.len() differs from width*height*3, and
\* encode_grayscale BufferSizeMismatch{expected: width*height, actual:
\* gray.len()} whenever gray.len() differs from width*height; the error is
\* returned before the compressor is created and no output is produced.
C18_BufferSizeChecked ==
    /\ (call.op = "encode_rgb" /\ ret.done /\ call.rgb # call.width * call.height * 3) =>
          /\ ret.val = [kind |-> "BufferSizeMismatch",
                        expected |-> call.width * call.height * 3, actual |-> call.rgb]
          /\ ffi_calls = <<>>
    /\ (call.op = "encode_grayscale" /\ ret.done /\ call.gray # call.width * call.height) =>
          /\ ret.val = [kind |-> "BufferSizeMismatch",
                        expected |-> call.width * call.height, actual |-> call.gray]
          /\ ffi_calls = <<>>

\* a 2x3 image passed to encode_rgb with one byte per pixel
C18_Witness ==
    /\ call.op = "encode_rgb"
    /\ call.width = 2 /\ call.height = 3 /\ call.rgb = 6
    /\ ret.done
    /\ ret.val = [kind |-> "BufferSizeMismatch", expected |-> 18, actual |-> 6]
    /\ ffi_calls = <<>>

\* C19: an encode call with width = 0 or height = 0 returns
\* InvalidDimensions{width, height} before any compressor is created, on
\* each of encode_rgb, encode_grayscale and encode_ycbcr_planar, also when
\* the buffers are empty and so match the computed size.
C19_ZeroDimensionsRejected ==
    (call.op \in {"encode_rgb", "encode_grayscale", "encode_ycbcr_planar"}
        /\ ret.done /\ (call.width = 0 \/ call.height = 0)) =>
        /\ ret.val = [kind |-> "InvalidDimensions",
                      width |-> call.width, height |-> call.height]
        /\ ffi_calls = <<>>

\* the (h_factor, v_factor) the planar layout of a subsampling has
PlanarFactors(subsampling) ==
    CASE subsampling = "S444" -> <<1, 1>>
      [] subsampling = "S422" -> <<2, 1>>
      [] subsampling = "S420" -> <<2, 2>>
      [] subsampling = "S440" -> <<1, 2>>

\* the least n with n * d >= x
Ceiling(x, d) == CHOOSE n \in 0 .. x : n * d >= x /\ (n = 0 \/ (n - 1) * d < x)

Encoded == call.op \in {"encode_rgb", "encode_grayscale", "encode_ycbcr_planar"}
           /\ ret.done /\ ret.val = OkJpeg

\* the step was made on the compressor
Applied(fn, args) == \E i \in 1 .. Len(ffi_calls) :
                        ffi_calls[i].fn = fn /\ ffi_calls[i].args = args

\* a marker of this type and data length was written
MarkerWritten(marker_type, len) ==
    \E i \in 1 .. Len(ffi_calls) :
        /\ ffi_calls[i].fn = "jpeg_write_marker"
        /\ ffi_calls[i].args[1] = marker_type
        /\ ffi_calls[i].args[2] = len

\* C21: every entry point applies the configured quality, force_baseline,
\* base quant table index, Huffman optimization, trellis (AC and DC),
\* overshoot deringing, smoothing, restart interval, optimize_scans and
\* progressive settings to the C compressor and writes the configured EXIF,
\* ICC and custom markers.
C21_SettingsApplied ==
    Encoded =>
        LET self == call.self
        IN  /\ Applied("jpeg_set_quality", <<self.quality, AsInt(self.force_baseline)>>)
            /\ Applied("jpeg_c_set_int_param(JINT_BASE_QUANT_TBL_IDX)",
                       <<self.quant_table_idx>>)
            /\ Applied("cinfo.optimize_coding", <<AsInt(self.optimize_huffman)>>)
            /\ Applied("jpeg_c_set_bool_param(JBOOLEAN_TRELLIS_QUANT)",
                       <<AsInt(self.trellis.enabled)>>)
            /\ Applied("jpeg_c_set_bool_param(JBOOLEAN_TRELLIS_QUANT_DC)",
                       <<AsInt(self.trellis.dc_enabled)>>)
            /\ Applied("jpeg_c_set_bool_param(JBOOLEAN_OVERSHOOT_DERINGING)",
                       <<AsInt(self.overshoot_deringing)>>)
            /\ Applied("cinfo.smoothing_factor", <<self.smoothing>>)
            /\ Applied("cinfo.restart_interval", <<self.restart_interval>>)
            /\ Applied("jpeg_c_set_bool_param(JBOOLEAN_OPTIMIZE_SCANS)",
                       <<AsInt(self.optimize_scans)>>)
            /\ self.progressive <=> Applied("jpeg_simple_progression", <<>>)
            /\ self.exif_data.some => MarkerWritten(225, self.exif_data.len)
            /\ (self.icc_profile.some /\ self.icc_profile.len > 0) =>
                  \E i \in 1 .. Len(ffi_calls) :
                      /\ ffi_calls[i].fn = "jpeg_write_marker"
                      /\ ffi_calls[i].args[1] = 226
            /\ \A k \in 1 .. Len(self.custom_markers) :
                  MarkerWritten(self.custom_markers[k][1], self.custom_markers[k][2])

\* the same statement for encode_rgb alone
C21_RgbSettingsApplied == call.op = "encode_rgb" => C21_SettingsApplied


\* write_icc_profile was called on a compressor that went on to return a
\* JPEG: encode_rgb or encode_ycbcr_planar of an encoder with an ICC profile
IccWritten ==
    /\ call.op \in {"encode_rgb", "encode_ycbcr_planar"}
    /\ ret.done /\ ret.val = OkJpeg
    /\ call.self.icc_profile.some

\* the APP2 markers written, in order
App2Markers ==
    SelectSeq(ffi_calls, LAMBDA e : e.fn = "jpeg_write_marker" /\ e.args[1] = 226)

\* the APP2 markers are consecutive chunks of the profile: each of at most
\* 65533 bytes, 14 of them header; the i-th carries seq_no = i and
\* num_markers = the number of chunks; the chunks are not empty, start where
\* the one before ends and together are the profile
IccChunksInOrder ==
    LET markers == App2Markers
        n == Len(markers)
    IN  /\ \A i \in 1 .. n :
              /\ markers[i].args[2] <= 65533
              /\ markers[i].args[2] = 14 + markers[i].args[6]
              /\ markers[i].args[6] >= 1
              /\ markers[i].args[3] = i
              /\ markers[i].args[4] = n
              /\ markers[i].args[5] =
                     IF i = 1 THEN 0 ELSE markers[i - 1].args[5] + markers[i - 1].args[6]
        /\ call.self.icc_profile.len =
               IF n = 0 THEN 0 ELSE markers[n].args[5] + markers[n].args[6]

Places(fn) == {i \in 1 .. Len(ffi_calls) : ffi_calls[i].fn = fn}

\* the overrides of the defaults: every parameter call and every assignment
\* to a field of cinfo other than the description of the input image
IsOverride(e) ==
    e.fn \in {"jpeg_c_set_int_param(JINT_BASE_QUANT_TBL_IDX)", "jpeg_set_quality",
              "cinfo.comp_info.samp_factors", "cinfo.raw_data_in", "cinfo.optimize_coding",
              "jpeg_c_set_bool_param(JBOOLEAN_TRELLIS_QUANT)",
              "jpeg_c_set_bool_param(JBOOLEAN_TRELLIS_QUANT_DC)",
              "jpeg_c_set_bool_param(JBOOLEAN_OVERSHOOT_DERINGING)",
              "cinfo.smoothing_factor", "cinfo.restart_interval",
              "jpeg_c_set_bool_param(JBOOLEAN_OPTIMIZE_SCANS)",
              "jpeg_simple_progression", "cinfo.num_scans", "cinfo.scan_info = null"}

\* the step of the encode sequence an entry of the trace belongs to:
\* 1 create, 2 configure, 3 start, 4 markers, 5 image rows, 6 finish,
\* 7 destroy
StepOf(e) ==
    CASE e.fn \in {"jpeg_CreateCompress", "jpeg_mem_dest"} -> 1
      [] e.fn = "jpeg_start_compress" -> 3
      [] e.fn = "jpeg_write_marker" -> 4
      [] e.fn \in {"jpeg_write_scanlines", "jpeg_write_raw_data"} -> 5
      [] e.fn = "jpeg_finish_compress" -> 6
      [] e.fn = "jpeg_destroy_compress" -> 7
      [] OTHER -> 2

RawDataBatches == SelectSeq(ffi_calls, LAMBDA e : e.fn = "jpeg_write_raw_data")

\* C28: in encode_ycbcr_planar, for every subsampling and every batch
\* starting at luma row r, the i-th luma row pointer refers to luma row
\* min(r + i, height - 1) and the k-th chroma row pointer (k = 0..7) of Cb
\* and of Cr to chroma row min(r / v_factor + k, chroma_height - 1); the
\* loop makes ceil(height / (8 * v_factor)) batches.
C28_RowPointers ==
    (Encoded /\ call.op = "encode_ycbcr_planar") =>
        LET v_factor == PlanarFactors(call.self.subsampling)[2]
            chroma_height == Ceiling(call.height, v_factor)
            batches == RawDataBatches
        IN  /\ Len(batches) = Ceiling(call.height, 8 * v_factor)
            /\ \A b \in 1 .. Len(batches) :
                  LET r == (b - 1) * 8 * v_factor
                  IN  /\ \A i \in 0 .. 8 * v_factor - 1 :
                            batches[b].rows[1][i + 1] = Min(r + i, call.height - 1)
                      /\ \A k \in 0 .. 7 :
                            /\ batches[b].rows[2][k + 1] =
                                   Min(r \div v_factor + k, chroma_height - 1)
                            /\ batches[b].rows[3][k + 1] =
                                   Min(r \div v_factor + k, chroma_height - 1)

\* the same statement for the modes without vertical subsampling
C28_RowPointersUnsampledRows ==
    (call.op = "encode_ycbcr_planar" /\ call.self.subsampling \in {"S444", "S422"}) =>
        C28_RowPointers

\* the luma rows and the number of batches alone
C28_LumaRowPointers ==
    (Encoded /\ call.op = "encode_ycbcr_planar") =>
        LET v_factor == PlanarFactors(call.self.subsampling)[2]
            batches == RawDataBatches
        IN  /\ Len(batches) = Ceiling(call.height, 8 * v_factor)
            /\ \A b \in 1 .. Len(batches) :
                  \A i \in 0 .. 8 * v_factor - 1 :
                      batches[b].rows[1][i + 1] =
                          Min((b - 1) * 8 * v_factor + i, call.height - 1)


\* the k-th operation was an encode_all_scans call that returned Ok, made on
\* an encoder that was freshly constructed or reset
FreshCall(k) ==
    /\ k \in 1 .. Len(hist)
    /\ hist[k].op = "encode_all_scans"
    /\ hist[k].ok
    /\ k = 1 \/ hist[k - 1].op = "reset"

BufferOfEncodedScan(i) == scan_buffers[Len(scan_buffers) - Len(sizes) + i]

\* C26: every trial-encoded scan has its own buffer, written from empty by
\* an encoder created for the scan: the buffer holds the block calls of this
\* scan and of no other, then finish_scan (with the scan's AC table, or
\* none for a DC scan) once, after the last block, then the flush of the bit
\* writer once, and the size is measured after the flush.
C26_ScanBuffersSeparate ==
    call.op = "encode_all_scans" =>
        /\ Len(sizes) <= Len(scan_buffers)
        /\ \A i \in 1 .. Len(sizes) :
              LET buffer == BufferOfEncodedScan(i)
                  scan == call.scans[i]
                  n == Len(buffer)
              IN  /\ n >= 2
                  /\ {k \in 1 .. n : buffer[k].op = "finish_scan"} = {n - 1}
                  /\ {k \in 1 .. n : buffer[k].op = "flush"} = {n}
                  /\ buffer[n - 1].table =
                         IF scan.ss = 0 THEN "none"
                         ELSE IF scan.component_index[1] = 0 THEN "ac_luma" ELSE "ac_chroma"
                  /\ sizes[i] = n
                  /\ \A k \in 1 .. n - 2 :
                        /\ buffer[k].op =
                               IF scan.ss = 0 /\ scan.se = 0
                               THEN IF scan.ah = 0 THEN "encode_dc_first"
                                    ELSE "encode_dc_refine"
                               ELSE IF scan.ah = 0 THEN "encode_ac_first"
                                    ELSE "encode_ac_refine"
                        /\ <<buffer[k].ss, buffer[k].se, buffer[k].ah, buffer[k].al>> =
                               <<scan.ss, scan.se, scan.ah, scan.al>>
                        /\ HasComponent(scan, buffer[k].comp)

\* a second encode_all_scans call without reset has encoded a DC scan and
\* an AC first scan of Y: the buffers of the earlier call are still stored,
\* and the AC scan's buffer ends with finish_scan on the luma AC table
C26_Witness ==
    /\ call.op = "encode_all_scans"
    /\ Len(sizes) >= 2
    /\ Len(scan_buffers) > Len(sizes)
    /\ call.scans[2] = ScanInfo(<<0>>, 1, 5, 0, 2)
    /\ BufferOfEncodedScan(2)[1].op = "encode_ac_first"
    /\ BufferOfEncodedScan(2)[sizes[2] - 1] = [op |-> "finish_scan", table |-> "ac_luma"]


\* the step encodes a DC refinement scan (Ss = Se = 0, Ah > 0)
DcRefinementEncoded ==
    ScanEncoded /\ CurrentScan.ss = 0 /\ CurrentScan.se = 0 /\ CurrentScan.ah > 0

\* scan j of the running call is a DC first scan that visits block b
\* (counted from 1) of the component
DcFirstScanOf(j, comp_idx, b) ==
    /\ call.scans[j].ss = 0 /\ call.scans[j].se = 0 /\ call.scans[j].ah = 0
    /\ \E k \in 1 .. Len(dc_visits(trial, call.scans[j])) :
          dc_visits(trial, call.scans[j])[k] = <<comp_idx, b - 1>>

\* during a call made on a fresh or reset encoder, a block is marked
\* DC-coded only if a DC first scan of this call has visited it: one of the
\* scans encoded so far, or the scan on which the call has failed
DcCodedByFirstScan ==
    FreshAtEntry =>
        \A blk \in AllBlocks :
            ComponentState(blk[1])[blk[2]].dc_coded =>
                \E j \in 1 .. Len(call.scans) :
                    /\ j <= Len(sizes) \/ (j = Len(sizes) + 1 /\ ret.done /\ ~ret.ok)
                    /\ DcFirstScanOf(j, blk[1], blk[2])

\* C27: a DC refinement scan emits a refinement bit for exactly the visited
\* blocks that are marked DC-coded, in the order of the visit, and nothing
\* for a block that is not; it changes no block state; a block is marked
\* DC-coded only by a DC first scan since the last reset.
C27_DcRefinementOnlyCoded ==
    /\ []DcCodedByFirstScan
    /\ [][DcRefinementEncoded =>
            /\ y_state' = y_state /\ cb_state' = cb_state /\ cr_state' = cr_state
            /\ LET visits == dc_visits(trial, CurrentScan)
                   coded == SelectSeq(visits,
                                LAMBDA v : ComponentState(v[1])[v[2] + 1].dc_coded)
                   buffer == scan_buffers'[Len(scan_buffers')]
               IN  /\ Len(buffer) = Len(coded) + 2
                   /\ \A k \in 1 .. Len(coded) :
                         /\ buffer[k].op = "encode_dc_refine"
                         /\ buffer[k].comp = coded[k][1]
                         /\ buffer[k].block = coded[k][2]
                         /\ buffer[k].al = CurrentScan.al]_vars

\* the DC refinement of Y was encoded before and after the DC first scan of
\* Y: the first time it coded no block, the second time the luma blocks
C27_Witness ==
    /\ call.op = "encode_all_scans"
    /\ call.scans = <<ScanInfo(<<0>>, 0, 0, 1, 0), ScanInfo(<<0>>, 0, 0, 0, 0),
                      ScanInfo(<<0>>, 0, 0, 1, 0)>>
    /\ FreshAtEntry
    /\ Len(sizes) = 3
    /\ sizes[1] = 2
    /\ sizes[3] = 2 + trial.y_len
    /\ BufferOfEncodedScan(3)[1].op = "encode_dc_refine"


\* the place in hist of the most recent reset(), 0 if there was none
LastReset ==
    LET resets == {k \in 1 .. Len(hist) : hist[k].op = "reset"}
    IN  IF resets = {} THEN 0 ELSE CHOOSE k \in resets : \A j \in resets : j <= k

\* the scans the k-th operation has encoded: those of the running (or last)
\* call are counted by sizes, those of an earlier call by what it returned
\* or had encoded when it failed
RECURSIVE EncodedSince(_)
EncodedSince(k) ==
    IF k > Len(hist) THEN 0
    ELSE (IF k = Len(hist) THEN Len(sizes) ELSE Len(hist[k].val)) + EncodedSince(k + 1)

\* C29: the number of stored scan buffers is the number of scans encoded
\* since the most recent reset() (or construction): encode_all_scans without
\* reset appends to the buffers of the earlier calls and keeps them as they
\* were, and a call that fails leaves the buffers of the scans it completed.
C29_BuffersCounted ==
    (trial.built /\ call.op \in {"none", "encode_all_scans", "reset"}) =>
        /\ Len(scan_buffers) =
               IF LastReset = Len(hist) THEN 0 ELSE EncodedSince(LastReset + 1)
        /\ \A k \in LastReset + 1 .. Len(hist) :
              hist[k].ok =>
                  /\ Len(hist[k].buffers) <= Len(scan_buffers)
                  /\ SubSeq(scan_buffers, 1, Len(hist[k].buffers)) = hist[k].buffers

\* a call has failed on its first scan after two calls without reset
\* between them: the buffers of the two earlier calls are all stored
C29_Witness ==
    /\ Len(hist) = 3
    /\ LastReset = 0
    /\ hist[1].ok /\ hist[2].ok
    /\ hist[1].n > 0 /\ hist[2].n > 0
    /\ ret.done /\ ~ret.ok
    /\ Len(scan_buffers) = hist[1].n + hist[2].n + Len(sizes)
    /\ SubSeq(scan_buffers, 1, hist[1].n) = hist[1].buffers


\* C25: removing the factor 8 of the DCT by (c + 4) >> 3 and then quantizing
\* is symmetric: for every DCT output c and every divisor q >= 1 the value
\* obtained for -c is the negation of the value obtained for c.
C25_RoundingSymmetry ==
    (call.op = "rust_dct_and_quantize" /\ ret.done) =>
        rust_dct_and_quantize(-call.coef, call.quant) = -ret.val


----------------------------------------------------------------------------
(* scan_trial.rs: the blocks a DC scan and an AC scan walk over *)

\* image widths and heights around the block and MCU boundaries
VisitDims == {1, 7, 8, 9, 16, 17, 25}

\* <<h_samp, v_samp>> of 4:4:4, 4:2:2, 4:2:0 and 4:4:0
SampFactors == {<<1, 1>>, <<2, 1>>, <<2, 2>>, <<1, 2>>}

\* the encoders new() makes for an image: MCU counts, chroma dimensions and
\* block slices follow from the width, the height and the sampling factors
VisitEncoders ==
    {NewTrial(w, h, f[1], f[2], {}) : w \in VisitDims, h \in VisitDims, f \in SampFactors}

\* a DC scan of the component, alone or interleaved with the other two, and
\* an AC scan of it
VisitCalls ==
    {[op |-> "visits", comp_idx |-> c, dc_comps |-> d] :
        c \in 0 .. 2, d \in {<<0, 1, 2>>}} \cup
    {[op |-> "visits", comp_idx |-> c, dc_comps |-> <<c>>] : c \in 0 .. 2}

InitVisits ==
    /\ last_dc_val = [c \in Components |-> 0]
    /\ emitted = <<>>
    /\ hist = <<>>
    /\ dc_table = StdDcSymbols
    /\ ac_table = StdAcSymbols
    /\ call \in VisitCalls
    /\ ret = [dc_done |-> FALSE, ac_done |-> FALSE, dc |-> <<>>, ac |-> <<>>]
    /\ trial \in VisitEncoders
    /\ y_state = [i \in 1 .. trial.y_len |-> BlockState_default]
    /\ cb_state = [i \in 1 .. trial.cb_len |-> BlockState_default]
    /\ cr_state = [i \in 1 .. trial.cr_len |-> BlockState_default]
    /\ scan_buffers = <<>>
    /\ sizes = <<>>
    /\ ffi_calls = <<>>

\* lines 195-245: the loop of encode_dc_scan; ret.dc keeps the block indices
\* of the component in the order the loop reaches them
DcScanVisits ==
    /\ call.op = "visits"
    /\ ~ret.dc_done
    /\ LET scan == ScanInfo(call.dc_comps, 0, 0, 0, 0)
           of_comp == SelectSeq(dc_visits(trial, scan), LAMBDA b : b[1] = call.comp_idx)
       IN  ret' = [ret EXCEPT !.dc_done = TRUE,
                              !.dc = [k \in 1 .. Len(of_comp) |-> of_comp[k][2]]]
    /\ UNCHANGED <<last_dc_val, emitted, hist, dc_table, ac_table, call, trial_vars, ffi_calls>>

\* lines 257-306: the loop of encode_ac_scan
AcScanVisits ==
    /\ call.op = "visits"
    /\ ~ret.ac_done
    /\ LET scan == ScanInfo(<<call.comp_idx>>, 1, 63, 0, 0)
           visits == ac_visits(trial, scan)
       IN  ret' = [ret EXCEPT !.ac_done = TRUE,
                              !.ac = [k \in 1 .. Len(visits) |-> visits[k][2]]]
    /\ UNCHANGED <<last_dc_val, emitted, hist, dc_table, ac_table, call, trial_vars, ffi_calls>>

NextVisits ==
    \/ DcScanVisits
    \/ AcScanVisits

SpecVisits == InitVisits /\ [][NextVisits]_vars

\* the indices a scan has visited
Visited(seq) == {seq[k] : k \in 1 .. Len(seq)}

\* no index is visited twice and none lies outside the component's array
\* (indices count from 0)
EachOnceInside(seq) ==
    /\ Cardinality(Visited(seq)) = Len(seq)
    /\ \A b \in Visited(seq) : 0 <= b /\ b < blocks_len(trial, call.comp_idx)

\* the blocks of the component that hold pixels of the image: those of the
\* first ceil(w / 8) columns and ceil(h / 8) rows of the component's plane
ActualBlocks ==
    LET luma == call.comp_idx = 0
        cols == IF luma THEN CeilDiv(trial.actual_width, 8) ELSE CeilDiv(trial.chroma_width, 8)
        rows == IF luma THEN CeilDiv(trial.actual_height, 8) ELSE CeilDiv(trial.chroma_height, 8)
        per_row == IF luma THEN trial.mcu_cols * trial.h_samp ELSE trial.mcu_cols
    IN  {r * per_row + c : r \in 0 .. rows - 1, c \in 0 .. cols - 1}

\* the image fills its MCU grid: no luma block is padding only
FillsMcuGrid ==
    /\ CeilDiv(trial.actual_width, 8) = trial.mcu_cols * trial.h_samp
    /\ CeilDiv(trial.actual_height, 8) = trial.mcu_rows * trial.v_samp

BothScansDone == call.op = "visits" /\ ret.dc_done /\ ret.ac_done

\* C30: a DC scan and an AC scan over a component visit exactly the same
\* set of block indices, each block exactly once and never an index outside
\* the component's block array, for every component and geometry.
C30_SameBlocksVisited ==
    BothScansDone =>
        /\ Visited(ret.dc) = Visited(ret.ac)
        /\ EachOnceInside(ret.dc)
        /\ EachOnceInside(ret.ac)

\* C30 as the code has it: each scan visits a block at most once and never
\* outside the array; the DC scan visits every block of the MCU-padded
\* array, the AC scan the blocks that hold pixels of the image; the two sets
\* are the same for Cb and Cr, and for Y exactly when the image fills its
\* MCU grid.
C30_PaddedAndActualBlocks ==
    BothScansDone =>
        /\ EachOnceInside(ret.dc)
        /\ EachOnceInside(ret.ac)
        /\ Visited(ret.dc) = 0 .. blocks_len(trial, call.comp_idx) - 1
        /\ Visited(ret.ac) = ActualBlocks
        /\ Visited(ret.ac) \subseteq Visited(ret.dc)
        /\ call.comp_idx # 0 => Visited(ret.ac) = Visited(ret.dc)
        /\ call.comp_idx = 0 => (Visited(ret.ac) = Visited(ret.dc) <=> FillsMcuGrid)

\* both scans of Y are done on a 4:2:0 image of 9 x 8 pixels: the DC scan
\* has visited the four blocks of the one MCU, the AC scan the two of them
\* that hold pixels
C30_Witness ==
    /\ BothScansDone
    /\ call.comp_idx = 0
    /\ trial.h_samp = 2 /\ trial.v_samp = 2
    /\ trial.actual_width = 9 /\ trial.actual_height = 8
    /\ Len(ret.dc) = 4
    /\ Visited(ret.ac) = {0, 1}

=============================================================================
